---- MODULE Spec2Model ----
(***************************************************************************)
(* State-machine model of the traffic-junction simulator.                  *)
(*                                                                         *)
(* Three groups of state live side by side:                                *)
(*   - the queue controllers: IntersectionController and TrafficManager    *)
(*     (src/src/managers), which share the shape of their state; the       *)
(*     variable impl says which of the two objects a behaviour follows;    *)
(*   - the five-state TrafficLight of src/src/core/TrafficLight.cpp with   *)
(*     the Lane objects of src/src/core/Lane.cpp it reads;                 *)
(*   - one Queue<T> / Lane under a sequence of calls (the FIFO contract).  *)
(* Each group has its own specification; the other groups' variables stay  *)
(* at their initial values.                                                *)
(*                                                                         *)
(* Time: the controllers' float seconds are modelled as integer seconds,   *)
(* the light's uint32 SDL ticks as integer milliseconds.                   *)
(***************************************************************************)
EXTENDS Integers, Sequences, FiniteSets, TLC

VARIABLES
    impl,               \* "IC" (IntersectionController) or "TM" (TrafficManager)
    queueSize,          \* LaneId -> number of vehicles queued in the controller's lane
    isPriorityMode,     \* IntersectionController::isPriorityMode
    inPriorityMode,     \* TrafficManager::inPriorityMode
    stateTimer,         \* stateTimer of the controller (seconds)
    processingTimer,    \* processingTimer of the controller (seconds)
    trafficLights,      \* TrafficManager::trafficLights: gated L2 lane -> "RED" | "GREEN"
    entry               \* history: how the present priority mode was entered:
                        \* "threshold" (AL2 above 10), "forced" (MAX_STATE_TIME), or
                        \* "none" in normal mode

VARIABLES
    currentState,       \* TrafficLight::currentState
    nextState,          \* TrafficLight::nextState
    sinceStateChange,   \* SDL_GetTicks() at the last update - lastStateChangeTime (ms)
    lightPriorityMode,  \* TrafficLight::isPriorityMode
    forceAGreen         \* TrafficLight::forceAGreen

VARIABLES
    laneName,           \* <<Lane::laneId, Lane::laneNumber>>
    isPriority,         \* Lane::isPriority
    priority,           \* Lane::priority
    elements,           \* Lane::vehicleQueue.elements, front first
    enqueued,           \* history: the vehicles enqueued, in call order
    dequeued,           \* history: the vehicles dequeue returned, in call order
    removed             \* history: the vehicles Queue::remove erased

VARIABLES
    pc,                 \* for each thread, its position inside Lane::dequeue or Lane::peek
    outcome             \* for each thread, how its last call of dequeue or peek ended

VARIABLES
    readerPc,           \* the position of the simulator inside readVehiclesFromFile
    written,            \* history: the lines write_vehicle has appended
    delivered           \* history: for each line, how often it became a vehicle

VARIABLES
    movingVehicle,      \* the fields of one Vehicle, noVehicle before its construction
    spawnLaneNumber     \* history: Vehicle::laneNumber at construction

VARIABLES
    linkedQueue,        \* the Queue of utils/Queue.cpp: front, rear, size and its nodes
    vectorQueue,        \* Queue::elements of utils/Queue.h, front first
    lastCall            \* the last call made on both queues and what each returned

VARIABLES
    priorityElements,   \* PriorityQueue::elements, front first
    lastPriorityCall    \* the last call on the PriorityQueue, its result and the
                        \* elements stored before it

VARIABLES
    fileLines,          \* the lines of the lane file readVehiclesFromFile reads
    returned,           \* the vector the last readVehiclesFromFile returned
    lastRead            \* history: the lines the last readVehiclesFromFile read

ctlVars == <<impl, queueSize, isPriorityMode, inPriorityMode, stateTimer,
             processingTimer, trafficLights, entry>>

lightVars == <<currentState, nextState, sinceStateChange, lightPriorityMode, forceAGreen>>

laneVars == <<laneName, isPriority, priority, elements, enqueued, dequeued, removed>>

fileVars == <<fileLines, returned, lastRead>>

threadVars == <<pc, outcome>>

feedVars == <<readerPc, written, delivered>>

vehicleVars == <<movingVehicle, spawnLaneNumber>>

\* the variables of the objects modelled after the lane file
queueVars == <<linkedQueue, vectorQueue, lastCall>>

priorityVars == <<priorityElements, lastPriorityCall>>

afterFeedVars == <<vehicleVars, queueVars, priorityVars>>

restVars == <<threadVars, feedVars, afterFeedVars>>

vars == <<ctlVars, lightVars, laneVars, fileVars, restVars>>

----------------------------------------------------------------------------
(* Bounds of the model *)

\* largest number of vehicles the model queues in the priority lane AL2
MaxPriorityLane == 11
\* largest number of vehicles the model queues in any other lane
MaxOtherLane == 1
\* update(deltaTime) is called with deltaTime in 1 .. MaxDelta seconds
MaxDelta == 2
\* most vehicles one TrafficManager::update reads from the lane files
MaxBatch == 1
\* most lanes whose head vehicle exceeds MAX_WAIT_TIME at one update
MaxAged == 1
\* TrafficLight::update is called 1 .. MaxStep seconds after the previous call
MaxStep == 2
\* number of vehicles the model enqueues in the Lane under test
MaxVehicles == 11
\* number of Queue::remove calls that erase an element
MaxRemoved == 1
\* most vehicles queued in normal lane BL2 before a processing step
MaxNormalLoad == 8
\* most lines the lane file holds when it is read
MaxFileLines == 2
\* longest line of the lane file the model builds from LineChars
MaxLineLen == 2
\* number of vehicles the model enqueues in a Lane it fills
MaxFill == 101
\* longest time between two update calls of a running light, in frames
MaxFrame == 2
\* how often the model lets one line of a lane file become a vehicle
MaxDeliveries == 2
\* the number of moving updates a vehicle needs from one waypoint to the next
SegmentSteps == 2
\* most elements the model holds in a Queue
MaxQueueLen == 3
\* the values enqueued are 1 .. MaxValue
MaxValue == 2
\* most elements the model holds in a PriorityQueue
MaxStored == 3
\* the priorities given to enqueue and updatePriority are 1 .. MaxPriorityValue
MaxPriorityValue == 2

DeltaTimes == 1..MaxDelta

----------------------------------------------------------------------------
(* enum class LaneId, with the integer values static_cast<int> gives *)

AL1_INCOMING == 0
AL2_PRIORITY == 1
AL3_FREELANE == 2
BL1_INCOMING == 3
BL2_NORMAL == 4
BL3_FREELANE == 5
CL1_INCOMING == 6
CL2_NORMAL == 7
CL3_FREELANE == 8
DL1_INCOMING == 9
DL2_NORMAL == 10
DL3_FREELANE == 11

LaneIds == AL1_INCOMING..DL3_FREELANE

\* the lanes vector, in construction order (TrafficManager's constructor)
LaneOrder == [i \in 1..12 |-> i - 1]

(* Program constants *)
PRIORITY_THRESHOLD == 10
NORMAL_THRESHOLD == 5
PRIORITY_RELEASE_THRESHOLD == 5
MIN_STATE_TIME == 5
MAX_STATE_TIME == 30
SIM_VEHICLE_PROCESS_TIME == 3
TM_VEHICLE_PROCESS_TIME == 2
WAIT_QUEUE_LIMIT == 8

----------------------------------------------------------------------------
(* The Lane of the controllers (getId, getQueueSize, addVehicle,           *)
(* removeVehicle, isPriorityLane): a FIFO of vehicles of which the         *)
(* controllers read only the size.                                         *)

getQueueSize(q, id) == q[id]

\* Lane::removeVehicle on the size of the lane: the head vehicle leaves a
\* non-empty lane
removeVehicle(size) == IF size > 0 THEN size - 1 ELSE size

\* Lane::addVehicle on the size of the lane
addVehicle(size) == size + 1

isPriorityLane(id) == id = AL2_PRIORITY

isFreeLane(id) ==
    \/ id = AL3_FREELANE
    \/ id = BL3_FREELANE
    \/ id = CL3_FREELANE
    \/ id = DL3_FREELANE

getPriorityLane == CHOOSE id \in LaneIds : isPriorityLane(id)

NormalLanes == {id \in LaneIds : ~isFreeLane(id) /\ ~isPriorityLane(id)}

\* the total size of the lanes of the vector, from lane i on, that are in counted
RECURSIVE SumFrom(_, _, _)
SumFrom(q, i, counted) ==
    IF i > Len(LaneOrder) THEN 0
    ELSE (IF LaneOrder[i] \in counted THEN q[LaneOrder[i]] ELSE 0)
         + SumFrom(q, i + 1, counted)

SumSizes(q, S) == SumFrom(q, 1, S)

Min(a, b) == IF a < b THEN a ELSE b

\* ceil(n / d) for n >= 0, d > 0
CeilDiv(n, d) == (n + d - 1) \div d


----------------------------------------------------------------------------
(* IntersectionController *)

\* shouldSwitchToNormalMode with the entry threshold in place of the exit one
shouldSwitchToNormalMode_Mut(mode, q, timer) ==
    IF ~mode THEN FALSE
    ELSE /\ getQueueSize(q, getPriorityLane) <= PRIORITY_THRESHOLD
         /\ timer >= MIN_STATE_TIME

\* shouldSwitchToNormalMode leaving priority mode only below 4 vehicles
shouldSwitchToNormalMode_BelowFour(mode, q, timer) ==
    /\ mode
    /\ getQueueSize(q, getPriorityLane) < NORMAL_THRESHOLD - 1
    /\ timer >= MIN_STATE_TIME

\* IntersectionController::shouldSwitchToNormalMode
shouldSwitchToNormalMode(mode, q, timer) ==
    IF ~mode THEN FALSE
    ELSE /\ getQueueSize(q, getPriorityLane) <= NORMAL_THRESHOLD
         /\ timer >= MIN_STATE_TIME

\* shouldSwitchToPriorityMode without the minimum dwell time
shouldSwitchToPriorityMode_NoDwell(mode, q, timer) ==
    IF mode THEN FALSE
    ELSE getQueueSize(q, getPriorityLane) > PRIORITY_THRESHOLD

\* shouldSwitchToPriorityMode with the threshold off by one
shouldSwitchToPriorityMode_OffByOne(mode, q, timer) ==
    IF mode THEN FALSE
    ELSE /\ getQueueSize(q, getPriorityLane) > PRIORITY_THRESHOLD + 1
         /\ timer >= MIN_STATE_TIME

\* IntersectionController::shouldSwitchToPriorityMode
shouldSwitchToPriorityMode(mode, q, timer) ==
    IF mode THEN FALSE
    ELSE /\ getQueueSize(q, getPriorityLane) > PRIORITY_THRESHOLD
         /\ timer >= MIN_STATE_TIME

\* handleStateTransition without the MAX_STATE_TIME forced flip
handleStateTransition_NoForcedFlip(mode, q, timer, ptimer) ==
    LET toNormal == mode /\ shouldSwitchToNormalMode(mode, q, timer)
        toPriority == ~toNormal /\ ~mode /\ shouldSwitchToPriorityMode(mode, q, timer)
        natural == toNormal \/ toPriority
    IN [mode |-> IF toNormal THEN FALSE ELSE IF toPriority THEN TRUE ELSE mode,
        timer |-> IF natural THEN 0 ELSE timer,
        ptimer |-> IF natural THEN 0 ELSE ptimer,
        natural |-> natural,
        forced |-> FALSE]

\* IntersectionController::handleStateTransition on (isPriorityMode,
\* stateTimer, processingTimer); natural and forced tell which branch assigned
\* the flag (resetStateTimers zeroes both timers).
handleStateTransition(mode, q, timer, ptimer) ==
    LET toNormal == mode /\ shouldSwitchToNormalMode(mode, q, timer)
        toPriority == ~toNormal /\ ~mode /\ shouldSwitchToPriorityMode(mode, q, timer)
        natural == toNormal \/ toPriority
        mode1 == IF toNormal THEN FALSE ELSE IF toPriority THEN TRUE ELSE mode
        timer1 == IF natural THEN 0 ELSE timer
        ptimer1 == IF natural THEN 0 ELSE ptimer
        forced == timer1 >= MAX_STATE_TIME
    IN [mode |-> IF forced THEN ~mode1 ELSE mode1,
        timer |-> IF forced THEN 0 ELSE timer1,
        ptimer |-> IF forced THEN 0 ELSE ptimer1,
        natural |-> natural,
        forced |-> forced]

\* the loop of processPriorityLane run while the size is at least the threshold
RECURSIVE releasePriority_BelowThreshold(_)
releasePriority_BelowThreshold(size) ==
    IF size >= PRIORITY_RELEASE_THRESHOLD
    THEN releasePriority_BelowThreshold(removeVehicle(size))
    ELSE size

\* the loop of processPriorityLane on the size of the priority lane
RECURSIVE releasePriority(_)
releasePriority(size) ==
    IF size > PRIORITY_RELEASE_THRESHOLD THEN releasePriority(removeVehicle(size))
    ELSE size

\* IntersectionController::processPriorityLane
processPriorityLane(q) ==
    [q EXCEPT ![getPriorityLane] = releasePriority(getQueueSize(q, getPriorityLane))]

\* the inner loop of processNormalLanes: up to n vehicles leave the lane
RECURSIVE removeUpTo(_, _)
removeUpTo(size, n) ==
    IF n > 0 /\ size > 0 THEN removeUpTo(removeVehicle(size), n - 1) ELSE size

\* IntersectionController::calculateAverageWaitingVehicles, as the pair
\* (totalVehicles, normalLaneCount) whose quotient the code returns
calculateAverageWaitingVehicles(q) ==
    [total |-> SumSizes(q, NormalLanes), count |-> Cardinality(NormalLanes)]

\* calculateVehiclesToProcess with the average rounded down
calculateVehiclesToProcess_Floor(q) ==
    LET avg == calculateAverageWaitingVehicles(q)
    IN IF avg.count > 0 THEN avg.total \div avg.count ELSE 0

\* IntersectionController::calculateVehiclesToProcess: ceil of the average
calculateVehiclesToProcess(q) ==
    LET avg == calculateAverageWaitingVehicles(q)
    IN IF avg.count > 0 THEN CeilDiv(avg.total, avg.count) ELSE 0

\* the loop of processNormalLanes over the lanes, each lane on its own
processNormalLanesBy(q, n) ==
    [id \in LaneIds |->
        IF ~isFreeLane(id) /\ ~isPriorityLane(id)
        THEN removeUpTo(getQueueSize(q, id), n) ELSE getQueueSize(q, id)]

\* IntersectionController::processNormalLanes
processNormalLanes(q) == processNormalLanesBy(q, calculateVehiclesToProcess(q))

\* the while loop of processFreeLanes
RECURSIVE drainLane(_)
drainLane(size) == IF size > 0 THEN drainLane(removeVehicle(size)) ELSE size

\* IntersectionController::processFreeLanes
processFreeLanes(q) ==
    [id \in LaneIds |->
        IF isFreeLane(id) THEN drainLane(getQueueSize(q, id)) ELSE getQueueSize(q, id)]

\* IntersectionController::checkWaitTimes
checkWaitTimes(q) ==
    [id \in LaneIds |->
        IF getQueueSize(q, id) > 0 /\ ~isFreeLane(id)
           /\ getQueueSize(q, id) >= WAIT_QUEUE_LIMIT
        THEN removeVehicle(getQueueSize(q, id)) ELSE getQueueSize(q, id)]

\* totalVehiclesProcessed++ runs after every removeVehicle() that returned a
\* vehicle, which removeVehicle() does on a lane that is not empty: the
\* number of increments in the loop of processPriorityLane
RECURSIVE releasePriorityCount(_)
releasePriorityCount(size) ==
    IF size > PRIORITY_RELEASE_THRESHOLD
    THEN (IF size > 0 THEN 1 ELSE 0) + releasePriorityCount(removeVehicle(size))
    ELSE 0

\* the increments of totalVehiclesProcessed in the inner loop of
\* processNormalLanes
RECURSIVE removeUpToCount(_, _)
removeUpToCount(size, n) ==
    IF n > 0 /\ size > 0 THEN 1 + removeUpToCount(removeVehicle(size), n - 1) ELSE 0

\* the increments of totalVehiclesProcessed in the loop of processFreeLanes
RECURSIVE drainLaneCount(_)
drainLaneCount(size) ==
    IF size > 0 THEN 1 + drainLaneCount(removeVehicle(size)) ELSE 0

\* the increments of totalVehiclesProcessed in processPriorityLane,
\* processNormalLanes and processFreeLanes
processPriorityLaneCount(q) == releasePriorityCount(getQueueSize(q, getPriorityLane))

processNormalLanesCount(q) ==
    SumSizes([id \in LaneIds |->
                 IF ~isFreeLane(id) /\ ~isPriorityLane(id)
                 THEN removeUpToCount(getQueueSize(q, id), calculateVehiclesToProcess(q))
                 ELSE 0], LaneIds)

processFreeLanesCount(q) ==
    SumSizes([id \in LaneIds |->
                 IF isFreeLane(id) THEN drainLaneCount(getQueueSize(q, id)) ELSE 0],
             LaneIds)

\* checkWaitTimes without the increment of totalVehiclesProcessed
checkWaitTimesCount_Uncounted(q) == 0

\* the increments of totalVehiclesProcessed in checkWaitTimes
checkWaitTimesCount(q) ==
    SumSizes([id \in LaneIds |->
                 IF getQueueSize(q, id) > 0 /\ ~isFreeLane(id)
                    /\ getQueueSize(q, id) >= WAIT_QUEUE_LIMIT
                 THEN 1 ELSE 0], LaneIds)

\* processingTimer >= calculateProcessingTime(): the time is
\* size(AL2) * 3.0 in priority mode and average * 3.0 in normal mode
processingDue(mode, q, ptimer) ==
    IF mode
    THEN ptimer >= getQueueSize(q, getPriorityLane) * SIM_VEHICLE_PROCESS_TIME
    ELSE LET avg == calculateAverageWaitingVehicles(q)
         IN IF avg.count > 0
            THEN ptimer * avg.count >= avg.total * SIM_VEHICLE_PROCESS_TIME
            ELSE ptimer >= 0

\* update with the free lanes served only when the processing step is due
ICUpdateResult_FreeWhenDue(mode, q, timer, ptimer, deltaTime) ==
    LET t == handleStateTransition(mode, q, timer + deltaTime, ptimer + deltaTime)
        due == processingDue(t.mode, q, t.ptimer)
        q1 == IF due
              THEN processFreeLanes(
                     IF t.mode THEN processPriorityLane(q) ELSE processNormalLanes(q))
              ELSE q
        q3 == checkWaitTimes(q1)
    IN [mode |-> t.mode, timer |-> t.timer,
        ptimer |-> IF due THEN 0 ELSE t.ptimer,
        forced |-> t.forced,
        q |-> q3]

\* IntersectionController::update(deltaTime) as a function of the state
ICUpdateResult(mode, q, timer, ptimer, deltaTime) ==
    LET t == handleStateTransition(mode, q, timer + deltaTime, ptimer + deltaTime)
        due == processingDue(t.mode, q, t.ptimer)
        q1 == IF due
              THEN IF t.mode THEN processPriorityLane(q) ELSE processNormalLanes(q)
              ELSE q
        q2 == processFreeLanes(q1)
        q3 == checkWaitTimes(q2)
    IN [mode |-> t.mode, timer |-> t.timer,
        ptimer |-> IF due THEN 0 ELSE t.ptimer,
        forced |-> t.forced,
        q |-> q3]

\* the number of times update(deltaTime) increments totalVehiclesProcessed
ICUpdateProcessed(mode, q, timer, ptimer, deltaTime) ==
    LET t == handleStateTransition(mode, q, timer + deltaTime, ptimer + deltaTime)
        due == processingDue(t.mode, q, t.ptimer)
        q1 == IF due
              THEN IF t.mode THEN processPriorityLane(q) ELSE processNormalLanes(q)
              ELSE q
        q2 == processFreeLanes(q1)
    IN (IF ~due THEN 0
        ELSE IF t.mode THEN processPriorityLaneCount(q)
        ELSE processNormalLanesCount(q))
       + processFreeLanesCount(q1) + checkWaitTimesCount(q2)

\* the history variable entry after an update that took the flag from mode to
\* newMode
EntryAfter(mode, newMode, forced) ==
    IF ~newMode THEN "none"
    ELSE IF mode THEN entry
    ELSE IF forced THEN "forced" ELSE "threshold"

ICUpdate(deltaTime) ==
    /\ impl = "IC"
    /\ \E r \in {ICUpdateResult(isPriorityMode, queueSize, stateTimer, processingTimer,
                               deltaTime)} :
          /\ isPriorityMode' = r.mode
          /\ stateTimer' = r.timer
          /\ processingTimer' = r.ptimer
          /\ queueSize' = r.q
          /\ entry' = EntryAfter(isPriorityMode, r.mode, r.forced)
    /\ UNCHANGED <<impl, inPriorityMode, trafficLights, lightVars, laneVars, fileVars, restVars>>

\* A vehicle is added to a lane: to a lane of the vector the
\* IntersectionController refers to, or by TrafficManager::addVehicleToLane
LaneCap(id) == IF isPriorityLane(id) THEN MaxPriorityLane ELSE MaxOtherLane

\* the lanes the model adds vehicles to, and the lanes of the lane files it
\* reads arrivals from
ArrivalLanes == {AL2_PRIORITY, AL3_FREELANE, BL2_NORMAL, BL3_FREELANE}

ArrivalSources == {AL2_PRIORITY}

\* the lanes the model calls addVehicleToLane on directly
DirectLanes == {AL2_PRIORITY}

AddVehicle(id) ==
    /\ impl = "TM" => id \in DirectLanes
    /\ queueSize[id] < LaneCap(id)
    /\ queueSize' = [queueSize EXCEPT ![id] = addVehicle(@)]
    /\ UNCHANGED <<impl, isPriorityMode, inPriorityMode, stateTimer, processingTimer,
                   trafficLights, entry, lightVars, laneVars, fileVars, restVars>>

----------------------------------------------------------------------------
(* TrafficManager *)

\* enum class Direction
STRAIGHT == 0
LEFT == 1
RIGHT == 2

Directions == {STRAIGHT, LEFT, RIGHT}

GatedLights == {AL2_PRIORITY, BL2_NORMAL, CL2_NORMAL, DL2_NORMAL}

\* TrafficManager::getLaneSize
getLaneSize(q, laneId) == IF laneId \in DOMAIN q THEN getQueueSize(q, laneId) ELSE 0

\* determineOptimalLane with right turns left on the source lane
determineOptimalLane_RightStays(q, direction, sourceLane) ==
    LET roadGroup == sourceLane \div 3
    IN CASE direction = LEFT -> roadGroup * 3 + 2
         [] direction = RIGHT -> sourceLane
         [] direction = STRAIGHT ->
                LET lane1 == roadGroup * 3
                    lane2 == roadGroup * 3 + 1
                IN IF getLaneSize(q, lane1) <= getLaneSize(q, lane2) THEN lane1 ELSE lane2
         [] OTHER -> sourceLane

\* TrafficManager::determineOptimalLane
determineOptimalLane(q, direction, sourceLane) ==
    LET roadGroup == sourceLane \div 3
    IN CASE direction = LEFT -> roadGroup * 3 + 2
         [] direction = RIGHT -> roadGroup * 3
         [] direction = STRAIGHT ->
                LET lane1 == roadGroup * 3
                    lane2 == roadGroup * 3 + 1
                IN IF getLaneSize(q, lane1) <= getLaneSize(q, lane2) THEN lane1 ELSE lane2
         [] OTHER -> sourceLane

\* TrafficManager::isValidSpawnLane
isValidSpawnLane(laneId, direction) ==
    LET laneInRoad == laneId % 3
    IN CASE direction = LEFT -> laneInRoad = 2
         [] direction = RIGHT -> laneInRoad = 0
         [] direction = STRAIGHT -> laneInRoad = 0 \/ laneInRoad = 1
         [] OTHER -> FALSE

\* TrafficManager::addVehicleToLane
addVehicleToLane(q, laneId) ==
    IF laneId \in DOMAIN q THEN [q EXCEPT ![laneId] = addVehicle(@)] ELSE q

\* TrafficManager::processNewVehicles on the vehicles readNewVehicles returned,
\* each a record [lane, direction]
RECURSIVE processNewVehicles(_, _)
processNewVehicles(q, newVehicles) ==
    IF newVehicles = << >> THEN q
    ELSE LET v == Head(newVehicles)
             optimalLane == determineOptimalLane(q, v.direction, v.lane)
         IN processNewVehicles(
                IF isValidSpawnLane(optimalLane, v.direction)
                THEN addVehicleToLane(q, optimalLane) ELSE q,
                Tail(newVehicles))

\* TrafficManager::checkPriorityConditions
checkPriorityConditions(q) == getQueueSize(q, getPriorityLane) > PRIORITY_THRESHOLD

\* TrafficManager::handleStateTransition on (inPriorityMode, stateTimer)
TM_handleStateTransition(mode, q, timer) ==
    LET shouldBePriority == checkPriorityConditions(q)
        toPriority == shouldBePriority /\ ~mode /\ timer >= MIN_STATE_TIME
        toNormal == /\ ~(shouldBePriority /\ ~mode)
                    /\ ~shouldBePriority /\ mode
                    /\ getQueueSize(q, getPriorityLane) <= PRIORITY_RELEASE_THRESHOLD
                    /\ timer >= MIN_STATE_TIME
        natural == toPriority \/ toNormal
        mode1 == IF toPriority THEN TRUE ELSE IF toNormal THEN FALSE ELSE mode
        timer1 == IF natural THEN 0 ELSE timer
        forced == timer1 >= MAX_STATE_TIME
    IN [mode |-> IF forced THEN ~mode1 ELSE mode1,
        timer |-> IF forced THEN 0 ELSE timer1,
        natural |-> natural,
        forced |-> forced]

\* TrafficManager::synchronizeTrafficLights
synchronizeTrafficLights(mode) ==
    IF mode
    THEN [id \in GatedLights |-> IF id = AL2_PRIORITY THEN "GREEN" ELSE "RED"]
    ELSE [id \in GatedLights |->
            IF id = BL2_NORMAL \/ id = DL2_NORMAL THEN "GREEN" ELSE "RED"]

\* updateTrafficLights without the alternation of the two pairs
updateTrafficLights_NoSwap(mode, timer) ==
    IF mode
    THEN [id \in GatedLights |-> IF id = AL2_PRIORITY THEN "GREEN" ELSE "RED"]
    ELSE [id \in GatedLights |->
            IF id = BL2_NORMAL \/ id = DL2_NORMAL THEN "GREEN" ELSE "RED"]

\* TrafficManager::updateTrafficLights: every light is set after its own update
updateTrafficLights(mode, timer) ==
    IF mode
    THEN [id \in GatedLights |-> IF id = AL2_PRIORITY THEN "GREEN" ELSE "RED"]
    ELSE LET northSouthGreen == (timer % 20) < 10
         IN [id \in GatedLights |->
               IF id = BL2_NORMAL \/ id = DL2_NORMAL
               THEN (IF northSouthGreen THEN "GREEN" ELSE "RED")
               ELSE (IF northSouthGreen THEN "RED" ELSE "GREEN")]

\* TrafficManager::calculateVehiclesToProcess
TM_calculateVehiclesToProcess(q) ==
    LET totalVehicles == SumSizes(q, NormalLanes)
        normalLaneCount == Cardinality(NormalLanes)
    IN IF normalLaneCount > 0 THEN CeilDiv(totalVehicles, normalLaneCount) ELSE 0

\* TrafficManager::processNormalLanes(vehicleCount)
TM_processNormalLanes(q, vehicleCount) ==
    IF vehicleCount = 0 THEN q ELSE processNormalLanesBy(q, vehicleCount)

\* TrafficManager::checkWaitTimes; aged is the set of lanes whose first
\* waiting vehicle has waitTime > MAX_WAIT_TIME
TM_checkWaitTimes(q, aged) ==
    [id \in LaneIds |->
        LET needsProcessing == id \in aged
        IN IF getQueueSize(q, id) > 0 /\ ~isFreeLane(id)
              /\ (needsProcessing \/ getQueueSize(q, id) >= WAIT_QUEUE_LIMIT)
           THEN removeVehicle(getQueueSize(q, id)) ELSE getQueueSize(q, id)]

\* TrafficManager::update(deltaTime) from handleStateTransition up to its call
\* of checkWaitTimes, as a function of the state; q0 holds the lanes after
\* processNewVehicles
TMUpdateResult(mode, q0, timer, ptimer, deltaTime) ==
    LET t == TM_handleStateTransition(mode, q0, timer + deltaTime)
        pt == ptimer + deltaTime
        due == pt >= TM_VEHICLE_PROCESS_TIME
        q1 == IF due
              THEN processFreeLanes(
                     IF t.mode THEN processPriorityLane(q0)
                     ELSE TM_processNormalLanes(q0, TM_calculateVehiclesToProcess(q0)))
              ELSE q0
    IN [mode |-> t.mode, timer |-> t.timer,
        ptimer |-> IF due THEN 0 ELSE pt,
        lights |-> updateTrafficLights(t.mode, t.timer),
        forced |-> t.forced,
        q |-> q1]

\* the batches of arriving vehicles the model feeds to one update
RECURSIVE SeqsUpTo(_, _)
SeqsUpTo(S, n) ==
    IF n = 0 THEN {<< >>}
    ELSE LET shorter == SeqsUpTo(S, n - 1)
         IN shorter \cup {Append(s, x) : s \in {t \in shorter : Len(t) = n - 1}, x \in S}

NewVehicleBatches ==
    SeqsUpTo([lane : ArrivalSources, direction : Directions], MaxBatch)

\* the lanes whose first waiting vehicle has waited longer than MAX_WAIT_TIME
\* at one update: any gated lanes that hold a vehicle, at most MaxAged of them
AgedChoices(q) ==
    {S \in SUBSET {id \in LaneIds : q[id] > 0 /\ ~isFreeLane(id)} : Cardinality(S) <= MaxAged}

\* the lanes after processNewVehicles, for every batch the lane files may hold
ArrivalOutcomes(q) ==
    {q0 \in {processNewVehicles(q, nv) : nv \in NewVehicleBatches} :
        \A id \in LaneIds : q0[id] <= LaneCap(id) \/ q0[id] = q[id]}

\* the lanes after checkWaitTimes, for every choice of aged lanes
WaitOutcomes(q) == {TM_checkWaitTimes(q, aged) : aged \in AgedChoices(q)}

TMUpdate(deltaTime) ==
    /\ impl = "TM"
    /\ \E q0 \in ArrivalOutcomes(queueSize) :
       \E r \in {TMUpdateResult(inPriorityMode, q0, stateTimer, processingTimer,
                                deltaTime)} :
          /\ inPriorityMode' = r.mode
          /\ stateTimer' = r.timer
          /\ processingTimer' = r.ptimer
          /\ trafficLights' = r.lights
          /\ queueSize' \in WaitOutcomes(r.q)
          /\ entry' = EntryAfter(inPriorityMode, r.mode, r.forced)
    /\ UNCHANGED <<impl, isPriorityMode, lightVars, laneVars, fileVars, restVars>>

----------------------------------------------------------------------------
(* TrafficLight (src/src/core/TrafficLight.cpp), the five-state light *)

\* enum class TrafficLight::State
ALL_RED == 0
A_GREEN == 1
B_GREEN == 2
C_GREEN == 3
D_GREEN == 4

States == ALL_RED..D_GREEN

GreenStates == {A_GREEN, B_GREEN, C_GREEN, D_GREEN}

\* the roads; lanes[r] below is the vehicle count of lane 2 of road r, the
\* only lanes TrafficLight::update reads
Roads == {"A", "B", "C", "D"}

\* Constants::PRIORITY_THRESHOLD_HIGH / PRIORITY_THRESHOLD_LOW
PRIORITY_THRESHOLD_HIGH == 10
PRIORITY_THRESHOLD_LOW == 5

\* TrafficLight::allRedDuration and the literal priorityGreenDuration (ms)
allRedDuration == 2000
priorityGreenDuration == 6000

\* the limits of stateDuration and the milliseconds of green per vehicle
MinGreenDuration == 3000
MaxGreenDuration == 15000
MsPerVehicle == 2000

\* the vehicle counts the model passes to update, and the time that passes
\* between two calls of update (ms)
PriorityCounts == {0, 4, 5, 10, 11}
OtherCounts == {0, 4, 130}
LaneCounts ==
    {l \in [Roads -> PriorityCounts] : \A r \in Roads \ {"A"} : l[r] \in OtherCounts}
TimeSteps == {k * 1000 : k \in 1..MaxStep}

\* TrafficLight::isGreen
isGreen_TwoRoads(state, lane) ==
    CASE state = A_GREEN -> lane = "A"
      [] state = B_GREEN -> lane = "B" \/ lane = "A"
      [] state = C_GREEN -> lane = "C"
      [] state = D_GREEN -> lane = "D"
      [] state = ALL_RED -> FALSE
      [] OTHER -> FALSE

isGreen(state, lane) ==
    CASE state = A_GREEN -> lane = "A"
      [] state = B_GREEN -> lane = "B"
      [] state = C_GREEN -> lane = "C"
      [] state = D_GREEN -> lane = "D"
      [] state = ALL_RED -> FALSE
      [] OTHER -> FALSE

\* TrafficLight::update, priority detection: the flag after the update has
\* observed vehicleCount in lane A2
detectPriority_ExitAtFive(mode, vehicleCount) ==
    IF vehicleCount > PRIORITY_THRESHOLD_HIGH THEN TRUE
    ELSE IF mode /\ vehicleCount <= PRIORITY_THRESHOLD_LOW THEN FALSE
    ELSE mode

detectPriority(mode, vehicleCount) ==
    IF vehicleCount > PRIORITY_THRESHOLD_HIGH THEN TRUE
    ELSE IF mode /\ vehicleCount < PRIORITY_THRESHOLD_LOW THEN FALSE
    ELSE mode

\* TrafficLight::calculateAverageVehicleCount: max(1.0f, total / n) as the
\* fraction <<numerator, denominator>>
calculateAverageVehicleCount(lanes, mode) ==
    LET counted == {r \in Roads : ~(mode /\ r = "A")}
        normalLaneCount == Cardinality(counted)
        totalVehicleCount ==
            LET RECURSIVE Sum(_)
                Sum(S) == IF S = {} THEN 0
                          ELSE LET r == CHOOSE x \in S : TRUE
                               IN lanes[r] + Sum(S \ {r})
            IN Sum(counted)
    IN IF normalLaneCount > 0 /\ totalVehicleCount > normalLaneCount
       THEN <<totalVehicleCount, normalLaneCount>>
       ELSE <<1, 1>>

\* TrafficLight::update, the green duration: static_cast<int>(average * 2000)
\* with the two limits applied
stateDuration_NoFloor(averageVehicleCount) ==
    LET d == (averageVehicleCount[1] * MsPerVehicle) \div averageVehicleCount[2]
    IN IF d > MaxGreenDuration THEN MaxGreenDuration ELSE d

stateDuration(averageVehicleCount) ==
    LET d == (averageVehicleCount[1] * MsPerVehicle) \div averageVehicleCount[2]
        d1 == IF d < MinGreenDuration THEN MinGreenDuration ELSE d
    IN IF d1 > MaxGreenDuration THEN MaxGreenDuration ELSE d1

\* the switch of the normal rotation, on the value nextState has when
\* currentState has just become ALL_RED
rotate(state) ==
    CASE state = A_GREEN -> B_GREEN
      [] state = B_GREEN -> C_GREEN
      [] state = C_GREEN -> D_GREEN
      [] state = D_GREEN -> A_GREEN
      [] OTHER -> A_GREEN

\* the priority block with the green phase ended after allRedDuration
priorityCycle_ShortGreen(cur, nxt, elapsedTime) ==
    IF cur # A_GREEN
    THEN IF elapsedTime >= allRedDuration
         THEN [cur |-> A_GREEN, nxt |-> ALL_RED, changed |-> TRUE]
         ELSE [cur |-> cur, nxt |-> nxt, changed |-> FALSE]
    ELSE IF elapsedTime >= allRedDuration
         THEN [cur |-> ALL_RED, nxt |-> A_GREEN, changed |-> TRUE]
         ELSE [cur |-> cur, nxt |-> nxt, changed |-> FALSE]

\* TrafficLight::update, the block run while isPriorityMode && forceAGreen:
\* the state, the next state and whether lastStateChangeTime is assigned
priorityCycle(cur, nxt, elapsedTime) ==
    IF cur # A_GREEN
    THEN IF elapsedTime >= allRedDuration
         THEN [cur |-> A_GREEN, nxt |-> ALL_RED, changed |-> TRUE]
         ELSE [cur |-> cur, nxt |-> nxt, changed |-> FALSE]
    ELSE IF elapsedTime >= priorityGreenDuration
         THEN [cur |-> ALL_RED, nxt |-> A_GREEN, changed |-> TRUE]
         ELSE [cur |-> cur, nxt |-> nxt, changed |-> FALSE]

\* TrafficLight::update(lanes) called when elapsedTime ms have passed since
\* lastStateChangeTime; changed says that lastStateChangeTime was assigned
TLUpdateResult(cur, nxt, mode, force, elapsedTime, lanes) ==
    LET vehicleCount == lanes["A"]
        mode1 == detectPriority(mode, vehicleCount)
        entered == mode1 /\ ~mode
        left == mode /\ ~mode1
        force1 == IF entered THEN TRUE ELSE IF left THEN FALSE ELSE force
        \* entering priority mode forces the light towards A_GREEN
        moved == entered /\ cur # A_GREEN
        cur1 == IF ~moved THEN cur ELSE IF cur # ALL_RED THEN ALL_RED ELSE A_GREEN
        nxt1 == IF ~moved THEN nxt ELSE IF cur # ALL_RED THEN A_GREEN ELSE ALL_RED
    IN IF mode1 /\ force1
       THEN \* priority mode: A_GREEN for priorityGreenDuration, then ALL_RED
            LET c == priorityCycle(cur1, nxt1, elapsedTime)
            IN [cur |-> c.cur, nxt |-> c.nxt, mode |-> mode1, force |-> force1,
                changed |-> moved \/ c.changed]
       ELSE \* normal mode
            LET duration == IF cur1 = ALL_RED THEN allRedDuration
                            ELSE stateDuration(calculateAverageVehicleCount(lanes, mode1))
            IN IF elapsedTime >= duration
               THEN [cur |-> nxt1,
                     nxt |-> IF nxt1 = ALL_RED THEN rotate(nxt1) ELSE ALL_RED,
                     mode |-> mode1, force |-> force1, changed |-> TRUE]
               ELSE [cur |-> cur1, nxt |-> nxt1, mode |-> mode1, force |-> force1,
                     changed |-> moved]

\* the result of update(lanes) in the present state, step ms after the last call
TLResult(step, lanes) ==
    TLUpdateResult(currentState, nextState, lightPriorityMode, forceAGreen,
                   sinceStateChange + step, lanes)

TLUpdate(step, lanes) ==
    /\ \E r \in {TLResult(step, lanes)} :
          /\ currentState' = r.cur
          /\ nextState' = r.nxt
          /\ lightPriorityMode' = r.mode
          /\ forceAGreen' = r.force
          /\ sinceStateChange' = IF r.changed THEN 0 ELSE sinceStateChange + step
    /\ UNCHANGED <<ctlVars, laneVars, fileVars, restVars>>

\* TrafficLight::setNextState
SetNextState(state) ==
    /\ nextState' = state
    /\ UNCHANGED <<currentState, sinceStateChange, lightPriorityMode, forceAGreen>>
    /\ UNCHANGED <<ctlVars, laneVars, fileVars, restVars>>

\* TrafficLight::TrafficLight
LightInit ==
    /\ currentState = ALL_RED
    /\ nextState = A_GREEN
    /\ sinceStateChange = 0
    /\ lightPriorityMode = FALSE
    /\ forceAGreen = FALSE

----------------------------------------------------------------------------
(* Queue<T> (src/include/utils/Queue.h) and Lane (src/src/core/Lane.cpp) *)

\* the null Vehicle pointer; vehicles are 1, 2, ... in the order of creation
NULL == 0

Vehicles == 1..MaxVehicles

\* Constants::MAX_QUEUE_SIZE
MAX_QUEUE_SIZE == 100

\* the lanes the model constructs
LaneNames == {<<"A", 2>>, <<"B", 2>>, <<"A", 3>>}

\* Queue::enqueue
Queue_enqueue(q, element) == Append(q, element)

\* Queue::dequeue; thrown stands for std::runtime_error("Queue is empty")
Queue_dequeue_Back(q) ==
    IF q = << >> THEN [thrown |-> TRUE, ret |-> NULL, elements |-> q]
    ELSE [thrown |-> FALSE, ret |-> q[Len(q)], elements |-> SubSeq(q, 1, Len(q) - 1)]

Queue_dequeue(q) ==
    IF q = << >> THEN [thrown |-> TRUE, ret |-> NULL, elements |-> q]
    ELSE [thrown |-> FALSE, ret |-> Head(q), elements |-> Tail(q)]

\* Queue::peek
Queue_peek(q) ==
    IF q = << >> THEN [thrown |-> TRUE, ret |-> NULL]
    ELSE [thrown |-> FALSE, ret |-> Head(q)]

\* Queue::remove; matching is the set of elements e with comparator(e, element)
Queue_remove(q, matching) ==
    IF \E i \in 1..Len(q) : q[i] \in matching
    THEN LET it == CHOOSE i \in 1..Len(q) :
                      q[i] \in matching /\ \A j \in 1..(i - 1) : q[j] \notin matching
         IN [ret |-> TRUE, erased |-> {q[it]},
             elements |-> SubSeq(q, 1, it - 1) \o SubSeq(q, it + 1, Len(q))]
    ELSE [ret |-> FALSE, erased |-> {}, elements |-> q]

\* Lane::enqueue without the test for a null vehicle
Lane_enqueue_NoNullCheck(q, pri, prio, vehicle) ==
    LET q1 == Queue_enqueue(q, vehicle)
        currentCount == Len(q1)
    IN [elements |-> q1,
        priority |-> IF pri /\ currentCount > PRIORITY_THRESHOLD_HIGH /\ prio = 0
                     THEN 100 ELSE prio]

\* Lane::enqueue
Lane_enqueue(q, pri, prio, vehicle) ==
    IF vehicle = NULL THEN [elements |-> q, priority |-> prio]
    ELSE LET q1 == Queue_enqueue(q, vehicle)
             currentCount == Len(q1)
         IN [elements |-> q1,
             priority |-> IF pri /\ currentCount > PRIORITY_THRESHOLD_HIGH /\ prio = 0
                          THEN 100 ELSE prio]

\* Lane::dequeue without the isEmpty test
Lane_dequeue_Unguarded(q, pri, prio) ==
    LET d == Queue_dequeue(q)
        currentCount == Len(d.elements)
    IN [thrown |-> d.thrown, ret |-> d.ret, elements |-> d.elements,
        priority |-> IF pri /\ currentCount < PRIORITY_THRESHOLD_LOW /\ prio > 0
                     THEN 0 ELSE prio]

\* Lane::dequeue with the priority reset at 5 vehicles already
Lane_dequeue_ResetAtFive(q, pri, prio) ==
    IF q = << >> THEN [thrown |-> FALSE, ret |-> NULL, elements |-> q, priority |-> prio]
    ELSE LET d == Queue_dequeue(q)
             currentCount == Len(d.elements)
         IN [thrown |-> d.thrown, ret |-> d.ret, elements |-> d.elements,
             priority |-> IF pri /\ currentCount <= PRIORITY_THRESHOLD_LOW /\ prio > 0
                          THEN 0 ELSE prio]

\* Lane::dequeue; thrown tells whether vehicleQueue.dequeue() threw
Lane_dequeue(q, pri, prio) ==
    IF q = << >> THEN [thrown |-> FALSE, ret |-> NULL, elements |-> q, priority |-> prio]
    ELSE LET d == Queue_dequeue(q)
             currentCount == Len(d.elements)
         IN [thrown |-> d.thrown, ret |-> d.ret, elements |-> d.elements,
             priority |-> IF pri /\ currentCount < PRIORITY_THRESHOLD_LOW /\ prio > 0
                          THEN 0 ELSE prio]

\* Lane::updatePriority: the priority afterwards
Lane_updatePriority(q, pri, prio) ==
    LET count == Len(q)
    IN IF ~pri THEN prio
       ELSE IF count > PRIORITY_THRESHOLD_HIGH /\ prio = 0 THEN 100
       ELSE IF count < PRIORITY_THRESHOLD_LOW /\ prio > 0 THEN 0
       ELSE prio

\* Lane::peek
Lane_peek(q) == IF q = << >> THEN NULL ELSE Queue_peek(q).ret

\* Lane::peek: whether vehicleQueue.peek() threw
Lane_peekThrown(q) == IF q = << >> THEN FALSE ELSE Queue_peek(q).thrown

LaneEnqueue(vehicle) ==
    /\ vehicle # NULL => Len(enqueued) < MaxVehicles
    /\ \E r \in {Lane_enqueue(elements, isPriority, priority, vehicle)} :
          /\ elements' = r.elements
          /\ priority' = r.priority
    /\ enqueued' = IF vehicle = NULL THEN enqueued ELSE Append(enqueued, vehicle)
    /\ UNCHANGED <<laneName, isPriority, dequeued, removed>>
    /\ UNCHANGED <<ctlVars, lightVars, fileVars, restVars>>

\* Lane::enqueue of the next vehicle, on a lane the model fills
LaneFill(vehicle) ==
    /\ Len(enqueued) < MaxFill
    /\ \E r \in {Lane_enqueue(elements, isPriority, priority, vehicle)} :
          /\ elements' = r.elements
          /\ priority' = r.priority
    /\ enqueued' = Append(enqueued, vehicle)
    /\ UNCHANGED <<laneName, isPriority, dequeued, removed>>
    /\ UNCHANGED <<ctlVars, lightVars, fileVars, restVars>>

LaneDequeue ==
    /\ \E r \in {Lane_dequeue(elements, isPriority, priority)} :
          /\ elements' = r.elements
          /\ priority' = r.priority
          /\ dequeued' = IF r.ret = NULL THEN dequeued ELSE Append(dequeued, r.ret)
    /\ UNCHANGED <<laneName, isPriority, enqueued, removed>>
    /\ UNCHANGED <<ctlVars, lightVars, fileVars, restVars>>

LaneUpdatePriority ==
    /\ priority' = Lane_updatePriority(elements, isPriority, priority)
    /\ UNCHANGED <<laneName, isPriority, elements, enqueued, dequeued, removed>>
    /\ UNCHANGED <<ctlVars, lightVars, fileVars, restVars>>

\* vehicleQueue.remove(element, comparator)
QueueRemove(matching) ==
    /\ Cardinality(removed) < MaxRemoved
    /\ \E r \in {Queue_remove(elements, matching)} :
          /\ elements' = r.elements
          /\ removed' = removed \cup r.erased
    /\ UNCHANGED <<laneName, isPriority, priority, enqueued, dequeued>>
    /\ UNCHANGED <<ctlVars, lightVars, fileVars, restVars>>

\* the comparators the model calls remove with: equality with one vehicle,
\* and a comparator several vehicles satisfy
Comparators == {{v} : v \in Vehicles} \cup {{v \in Vehicles : v % 2 = 0}}

\* Lane::Lane(laneId, laneNumber)
LaneInitOf(name) ==
    /\ laneName = name
    /\ isPriority = (name[1] = "A" /\ name[2] = 2)
    /\ priority = 0
    /\ elements = << >>
    /\ enqueued = << >>
    /\ dequeued = << >>
    /\ removed = {}

----------------------------------------------------------------------------
(* FileHandler (src/src/managers/FileHandler.cpp): reading a lane file *)

\* A std::string is the sequence of its characters; positions are counted
\* from 0 as in the code.
npos == -1

length(str) == Len(str)

at(str, pos) == str[pos + 1]

\* std::string::substr(pos, count)
substr(str, pos, count) == SubSeq(str, pos + 1, Min(pos + count, Len(str)))

\* std::string::find(pattern): the first position pattern occurs at, or npos
find(str, pattern) ==
    LET hits == {i \in 0..(Len(str) - Len(pattern)) :
                    SubSeq(str, i + 1, i + Len(pattern)) = pattern}
    IN IF hits = {} THEN npos ELSE CHOOSE i \in hits : \A j \in hits : i <= j

\* the lane numbers the characters '1' .. '3' stand for
laneNumberOf(laneNumChar) ==
    CASE laneNumChar = "1" -> 1
      [] laneNumChar = "2" -> 2
      [] laneNumChar = "3" -> 3

\* the null Vehicle* parseVehicleLine returns: no Vehicle has lane number 0
nullptr ==
    [id |-> << >>, lane |-> "", laneNumber |-> 0, isEmergency |-> FALSE,
     destination |-> ""]

\* parseVehicleLine that takes whatever follows the colon as the lane
parseVehicleLine_NoLaneCheck(line) ==
    LET pos == find(line, <<":">>)
    IN IF pos = npos THEN nullptr
       ELSE IF pos + 1 >= length(line) THEN nullptr
       ELSE [id |-> substr(line, 0, pos), lane |-> at(line, pos + 1),
             laneNumber |-> 2, isEmergency |-> FALSE, destination |-> "STRAIGHT"]

\* parseVehicleLine without the rejection of lane number 1
parseVehicleLine_Lane1Allowed(line) ==
    LET pos == find(line, <<":">>)
    IN IF pos = npos THEN nullptr
       ELSE
       LET vehicleId == substr(line, 0, pos)
       IN IF pos + 1 >= length(line) THEN nullptr
          ELSE
          LET laneId == at(line, pos + 1)
              lanePos == find(vehicleId, <<"_", "L">>)
              laneNumber ==
                  IF lanePos # npos /\ lanePos + 2 < length(vehicleId)
                     /\ at(vehicleId, lanePos + 2) \in {"1", "2", "3"}
                  THEN laneNumberOf(at(vehicleId, lanePos + 2))
                  ELSE 2
              destination ==
                  IF laneNumber = 3 THEN "LEFT"
                  ELSE IF find(vehicleId, <<"_", "L", "E", "F", "T">>) # npos THEN "LEFT"
                  ELSE "STRAIGHT"
              isEmergency ==
                  find(vehicleId, <<"_", "E">>) # npos \/ find(vehicleId, <<"E", "_">>) # npos
          IN IF laneId \notin {"A", "B", "C", "D"} THEN nullptr
             ELSE [id |-> vehicleId, lane |-> laneId, laneNumber |-> laneNumber,
                   isEmergency |-> isEmergency, destination |-> destination]

\* FileHandler::parseVehicleLine: nullptr or the Vehicle created
parseVehicleLine(line) ==
    LET pos == find(line, <<":">>)
    IN IF pos = npos THEN nullptr
       ELSE
       LET vehicleId == substr(line, 0, pos)
       IN IF pos + 1 >= length(line) THEN nullptr
          ELSE
          LET laneId == at(line, pos + 1)
              lanePos == find(vehicleId, <<"_", "L">>)
              laneNumber ==
                  IF lanePos # npos /\ lanePos + 2 < length(vehicleId)
                     /\ at(vehicleId, lanePos + 2) \in {"1", "2", "3"}
                  THEN laneNumberOf(at(vehicleId, lanePos + 2))
                  ELSE 2
              destination ==
                  IF laneNumber = 3 THEN "LEFT"
                  ELSE IF find(vehicleId, <<"_", "L", "E", "F", "T">>) # npos THEN "LEFT"
                  ELSE "STRAIGHT"
              isEmergency ==
                  find(vehicleId, <<"_", "E">>) # npos \/ find(vehicleId, <<"E", "_">>) # npos
          IN IF laneNumber = 1 THEN nullptr
             ELSE IF laneId \notin {"A", "B", "C", "D"} THEN nullptr
             ELSE [id |-> vehicleId, lane |-> laneId, laneNumber |-> laneNumber,
                   isEmergency |-> isEmergency, destination |-> destination]

\* the loop of readVehiclesFromFile over the lines read
RECURSIVE parseLines(_)
parseLines(lines) ==
    IF lines = << >> THEN << >>
    ELSE LET vehicle == parseVehicleLine(Head(lines))
         IN IF vehicle # nullptr THEN <<vehicle>> \o parseLines(Tail(lines))
            ELSE parseLines(Tail(lines))

NonEmptyLine(line) == line # << >>

\* FileHandler::readVehiclesFromFile on a file holding the lines file: the
\* vector returned and the lines of the file afterwards; opened and cleared
\* tell whether the file could be opened and truncated
readVehiclesFromFile(file, opened, cleared) ==
    IF ~opened THEN [vehicles |-> << >>, file |-> file]
    ELSE LET lines == SelectSeq(file, NonEmptyLine)
         IN IF lines = << >> THEN [vehicles |-> << >>, file |-> file]
            ELSE [vehicles |-> parseLines(lines),
                  file |-> IF cleared THEN << >> ELSE file]

\* the characters of the short lines, and the lines the file may hold
LineChars == {":", "A", "X"}

ShortLines == UNION {[1..n -> LineChars] : n \in 0..MaxLineLen}

SampleLines ==
    {<<"g", "a", "r", "b", "a", "g", "e", "_", "n", "o", "_", "c", "o", "l", "o", "n">>,
     <<"V", "1", "_", "L", "2", ":", "A">>,
     <<"V", "1", "_", "L", "3", ":", "B">>,
     <<"V", "1", "_", "L", "1", ":", "C">>,
     <<"V", "1", "_", "L", "2", "_", "L", "E", "F", "T", ":", "D">>,
     <<"V", "1", "_", "E", ":", "A">>,
     <<"V", "1", "_", "L", "2", ":">>,
     <<"V", "1", "_", "L", "2", ":", "E">>}

Lines == ShortLines \cup SampleLines

\* a line is appended to the lane file, by the traffic generator's
\* write_vehicle or by any other writer of the file; the vector returned by
\* the previous read has been taken by its caller
WriteLine(line) ==
    /\ Len(fileLines) < MaxFileLines
    /\ fileLines' = Append(fileLines, line)
    /\ returned' = << >>
    /\ lastRead' = << >>
    /\ UNCHANGED <<ctlVars, lightVars, laneVars, restVars>>

ReadVehiclesFromFile(opened, cleared) ==
    /\ \E r \in {readVehiclesFromFile(fileLines, opened, cleared)} :
          /\ returned' = r.vehicles
          /\ fileLines' = r.file
    /\ lastRead' = IF opened THEN fileLines ELSE << >>
    /\ UNCHANGED <<ctlVars, lightVars, laneVars, restVars>>

FileInit ==
    /\ fileLines = << >>
    /\ returned = << >>
    /\ lastRead = << >>

----------------------------------------------------------------------------
(* The lane file between the generator process (write_vehicle,
   src/src/traffic_generator.cpp) and the simulator (readVehiclesFromFile).
   The two are separate processes: the mutexes of write_vehicle and of
   FileHandler do not exclude each other, so one append falls before, between
   or after the read and the truncation of one poll. *)

\* std::to_string of a lane number
laneNumberText(laneNumber) ==
    CASE laneNumber = 1 -> <<"1">>
      [] laneNumber = 2 -> <<"2">>
      [] laneNumber = 3 -> <<"3">>

\* write_vehicle: the text of the line it appends
vehicleLine(id, lane, laneNumber, dir) ==
    id \o <<"_", "L">> \o laneNumberText(laneNumber)
       \o (IF laneNumber = 3 THEN <<"_", "L", "E", "F", "T">>
           ELSE IF laneNumber = 2
                THEN IF dir = "STRAIGHT"
                     THEN <<"_", "S", "T", "R", "A", "I", "G", "H", "T">>
                     ELSE <<"_", "L", "E", "F", "T">>
                ELSE << >>)
       \o <<":", lane>>

\* write_vehicle: the lines of the lane file afterwards
write_vehicle(file, id, lane, laneNumber, dir) ==
    IF laneNumber < 1 \/ laneNumber > 3 \/ laneNumber = 1 THEN file
    ELSE Append(file, vehicleLine(id, lane, laneNumber, dir))

\* the calls of write_vehicle the model makes
VehicleIds == {<<"V", "1">>}
GeneratorLanes == {"A"}
GeneratorLaneNumbers == {1, 2, 3}
GeneratorDirections == {"LEFT", "STRAIGHT", "RIGHT"}

GeneratedLines ==
    {vehicleLine(id, lane, n, dir) :
        id \in VehicleIds, lane \in GeneratorLanes,
        n \in GeneratorLaneNumbers, dir \in GeneratorDirections}

\* the generator appends a vehicle it has not written before (its ids are
\* numbered)
GeneratorWrite(id, lane, laneNumber, dir) ==
    /\ Len(fileLines) < MaxFileLines
    /\ vehicleLine(id, lane, laneNumber, dir) \notin written
    /\ fileLines' = write_vehicle(fileLines, id, lane, laneNumber, dir)
    /\ written' = IF fileLines' # fileLines
                  THEN written \cup {vehicleLine(id, lane, laneNumber, dir)}
                  ELSE written
    /\ UNCHANGED <<returned, lastRead, readerPc, delivered>>
    /\ UNCHANGED <<ctlVars, lightVars, laneVars, threadVars, afterFeedVars>>

\* readVehiclesFromFile up to file.close(): the lines are read into the
\* local vector; the call returns here when the file could not be opened or
\* holds no line
ReaderRead(opened) ==
    /\ readerPc = "idle"
    /\ LET lines == IF opened THEN SelectSeq(fileLines, NonEmptyLine) ELSE << >>
       IN /\ lastRead' = lines
          /\ IF lines = << >>
             THEN returned' = << >> /\ UNCHANGED readerPc
             ELSE readerPc' = "clear" /\ UNCHANGED returned
    /\ UNCHANGED <<fileLines, written, delivered>>
    /\ UNCHANGED <<ctlVars, lightVars, laneVars, threadVars, afterFeedVars>>

\* readVehiclesFromFile from the parsing of the lines read to the return:
\* the file is truncated when one of the three attempts succeeds (cleared)
ReaderClear(cleared) ==
    /\ readerPc = "clear"
    /\ \A i \in 1..Len(lastRead) : delivered[lastRead[i]] < MaxDeliveries
    /\ returned' = parseLines(lastRead)
    /\ fileLines' = IF cleared THEN << >> ELSE fileLines
    /\ delivered' = [line \in GeneratedLines |->
                       IF parseVehicleLine(line) # nullptr
                          /\ \E i \in 1..Len(lastRead) : lastRead[i] = line
                       THEN delivered[line] + 1 ELSE delivered[line]]
    /\ readerPc' = "idle"
    /\ UNCHANGED <<lastRead, written>>
    /\ UNCHANGED <<ctlVars, lightVars, laneVars, threadVars, afterFeedVars>>

FeedInit ==
    /\ readerPc = "idle"
    /\ written = {}
    /\ delivered = [line \in GeneratedLines |-> 0]

----------------------------------------------------------------------------
(* Vehicle (src/src/core/Vehicle.cpp): the movement of one vehicle along its
   waypoints. The position is the index of the waypoint passed last and the
   distance covered towards the next one, in moving updates; a waypoint
   counts as reached (distance < 3.0f) when that distance is SegmentSteps. *)

\* the vehicle before its construction
noVehicle ==
    [lane |-> "-", laneNumber |-> 0, destination |-> "-", currentDirection |-> "-",
     waypoints |-> 0, currentWaypoint |-> 0, covered |-> 0, turning |-> FALSE,
     state |-> "-"]

\* Vehicle::Vehicle: the direction of travel of a road
directionOf(lane) ==
    CASE lane = "A" -> "DOWN"
      [] lane = "B" -> "LEFT"
      [] lane = "C" -> "UP"
      [] lane = "D" -> "RIGHT"
      [] OTHER -> "DOWN"

\* Vehicle::initializeWaypoints: waypoints.size()
waypointsSize(laneNumber, destination) ==
    IF laneNumber = 3 THEN 6
    ELSE IF laneNumber = 2
         THEN IF destination = "STRAIGHT" THEN 5
              ELSE IF destination = "LEFT" THEN 6 ELSE 2
         ELSE 2

\* Vehicle::Vehicle followed by setDestination
newVehicle(lane, laneNumber, destination) ==
    [lane |-> lane, laneNumber |-> laneNumber, destination |-> destination,
     currentDirection |-> directionOf(lane),
     waypoints |-> waypointsSize(laneNumber, destination),
     currentWaypoint |-> 0, covered |-> 0, turning |-> FALSE,
     state |-> "APPROACHING"]

\* Vehicle::update, the lane the vehicle is assigned when it exits:
\* <<lane, currentDirection>>
exitLane(currentDirection, laneNumber, destination) ==
    CASE currentDirection = "DOWN" ->
            IF laneNumber = 3 THEN <<"B", "LEFT">>
            ELSE IF destination = "LEFT" THEN <<"D", "RIGHT">> ELSE <<"C", "UP">>
      [] currentDirection = "UP" ->
            IF laneNumber = 3 THEN <<"D", "RIGHT">>
            ELSE IF destination = "LEFT" THEN <<"B", "LEFT">> ELSE <<"A", "DOWN">>
      [] currentDirection = "LEFT" ->
            IF laneNumber = 3 THEN <<"C", "UP">>
            ELSE IF destination = "LEFT" THEN <<"A", "DOWN">> ELSE <<"D", "RIGHT">>
      [] currentDirection = "RIGHT" ->
            IF laneNumber = 3 THEN <<"A", "DOWN">>
            ELSE IF destination = "LEFT" THEN <<"C", "UP">> ELSE <<"B", "LEFT">>

\* Vehicle::update, the vehicle after currentWaypoint++ has passed a waypoint
passWaypoint(v) ==
    LET cw == v.currentWaypoint + 1
        leftTurner == v.laneNumber = 3 \/ (v.laneNumber = 2 /\ v.destination = "LEFT")
        v1 == IF leftTurner /\ cw = 2
              THEN [v EXCEPT !.currentWaypoint = cw, !.covered = 0,
                             !.turning = TRUE, !.state = "IN_INTERSECTION"]
              ELSE [v EXCEPT !.currentWaypoint = cw, !.covered = 0]
        isExiting == IF v.laneNumber = 3 THEN cw = 3
                     ELSE IF v.laneNumber = 2
                          THEN IF v.destination = "LEFT" THEN cw = 3 ELSE cw = 2
                          ELSE FALSE
    IN IF isExiting
       THEN LET to == exitLane(v.currentDirection, v.laneNumber, v.destination)
            IN [v1 EXCEPT !.turning = FALSE, !.state = "EXITING",
                          !.lane = to[1], !.laneNumber = 1, !.currentDirection = to[2]]
       ELSE v1

\* Vehicle::update, the red-light branch: before waypoint 2 the vehicle moves
\* towards its place in the queue, one moving update before the stop line
\* (waypoint 1) for queuePos 0; elsewhere it stands
queuePositioning(v) ==
    IF v.currentWaypoint <= 1
    THEN LET position == v.currentWaypoint * SegmentSteps + v.covered
             queueStop == SegmentSteps - 1
         IN IF position < queueStop THEN [v EXCEPT !.covered = @ + 1]
            ELSE IF position > queueStop THEN [v EXCEPT !.covered = @ - 1]
            ELSE v
    ELSE v

\* Vehicle::update(delta, isGreenLight, targetPos); offScreen tells whether
\* the position lies outside the window when the last waypoint is reached
update(v, isGreenLight, offScreen) ==
    LET canMove == isGreenLight \/ v.laneNumber = 3
    IN IF canMove
       THEN LET v1 == IF v.currentWaypoint < v.waypoints - 1
                      THEN IF v.covered >= SegmentSteps THEN passWaypoint(v)
                           ELSE [v EXCEPT !.covered = @ + 1]
                      ELSE v
            IN IF v1.currentWaypoint = v1.waypoints - 1 /\ offScreen
               THEN [v1 EXCEPT !.state = "EXITED"] ELSE v1
       ELSE queuePositioning(v)

\* the vehicles the model constructs: lane 2 and lane 3 of every road
SpawnRoads == {"A", "B", "C", "D"}

Spawns ==
    {<<lane, 3, "LEFT">> : lane \in SpawnRoads}
       \cup {<<lane, 2, d>> : lane \in SpawnRoads, d \in {"STRAIGHT", "LEFT"}}

CreateVehicle(lane, laneNumber, destination) ==
    /\ movingVehicle = noVehicle
    /\ movingVehicle' = newVehicle(lane, laneNumber, destination)
    /\ spawnLaneNumber' = laneNumber
    /\ UNCHANGED <<ctlVars, lightVars, laneVars, fileVars, threadVars, feedVars,
                   queueVars, priorityVars>>

VehicleUpdate(isGreenLight, offScreen) ==
    /\ movingVehicle # noVehicle
    /\ movingVehicle.state # "EXITED"
    /\ movingVehicle' = update(movingVehicle, isGreenLight, offScreen)
    /\ UNCHANGED spawnLaneNumber
    /\ UNCHANGED <<ctlVars, lightVars, laneVars, fileVars, threadVars, feedVars,
                   queueVars, priorityVars>>

VehicleInit ==
    /\ movingVehicle = noVehicle
    /\ spawnLaneNumber = 0

----------------------------------------------------------------------------
(* The Queue of utils/Queue.cpp, nodes linked from front to rear, next to
   the Queue of utils/Queue.h, a vector. The same calls are made on both. *)

\* the shared_ptr<Node> that points to no node
nullNode == 0

\* the values the model enqueues
QueueValues == 1..MaxValue

\* the nodes linked from node n on, in link order
RECURSIVE Linked(_, _)
Linked(heap, n) ==
    IF n = nullNode THEN << >> ELSE <<n>> \o Linked(heap, heap[n].next)

\* std::shared_ptr: a node lives as long as front, rear or a living node's
\* next points to it
release(heap, front, rear) ==
    LET living == {Linked(heap, front)[i] : i \in 1..Len(Linked(heap, front))}
                     \cup {Linked(heap, rear)[i] : i \in 1..Len(Linked(heap, rear))}
    IN [n \in living |-> heap[n]]

\* Queue() of Queue.cpp
LinkedQueue_new == [front |-> nullNode, rear |-> nullNode, size |-> 0, heap |-> << >>]

\* Queue::isEmpty of Queue.cpp
LinkedQueue_isEmpty(l) == l.front = nullNode

\* Queue::getSize of Queue.cpp
LinkedQueue_getSize(l) == l.size

\* Queue::enqueue of Queue.cpp
LinkedQueue_enqueue(l, value) ==
    LET newNode == CHOOSE n \in 1..(Cardinality(DOMAIN l.heap) + 1) : n \notin DOMAIN l.heap
        made == [n \in DOMAIN l.heap \cup {newNode} |->
                    IF n = newNode THEN [data |-> value, next |-> nullNode] ELSE l.heap[n]]
    IN IF LinkedQueue_isEmpty(l)
       THEN [front |-> newNode, rear |-> newNode, size |-> l.size + 1,
             heap |-> release(made, newNode, newNode)]
       ELSE [front |-> l.front, rear |-> newNode, size |-> l.size + 1,
             heap |-> release([made EXCEPT ![l.rear].next = newNode], l.front, newNode)]

\* Queue::dequeue of Queue.cpp that leaves rear on the removed node
LinkedQueue_dequeue_KeepRear(l) ==
    IF LinkedQueue_isEmpty(l) THEN [thrown |-> TRUE, ret |-> NULL, queue |-> l]
    ELSE LET front1 == l.heap[l.front].next
         IN [thrown |-> FALSE, ret |-> l.heap[l.front].data,
             queue |-> [front |-> front1, rear |-> l.rear, size |-> l.size - 1,
                        heap |-> release(l.heap, front1, l.rear)]]

\* Queue::dequeue of Queue.cpp; thrown stands for std::runtime_error("Queue is empty")
LinkedQueue_dequeue(l) ==
    IF LinkedQueue_isEmpty(l) THEN [thrown |-> TRUE, ret |-> NULL, queue |-> l]
    ELSE LET front1 == l.heap[l.front].next
             rear1 == IF front1 = nullNode THEN nullNode ELSE l.rear
         IN [thrown |-> FALSE, ret |-> l.heap[l.front].data,
             queue |-> [front |-> front1, rear |-> rear1, size |-> l.size - 1,
                        heap |-> release(l.heap, front1, rear1)]]

\* Queue::peek of Queue.cpp
LinkedQueue_peek(l) ==
    IF LinkedQueue_isEmpty(l) THEN [thrown |-> TRUE, ret |-> NULL]
    ELSE [thrown |-> FALSE, ret |-> l.heap[l.front].data]

\* Queue::isEmpty of Queue.h
Queue_isEmpty(q) == q = << >>

\* Queue::size of Queue.h
Queue_size(q) == Len(q)

\* what a call that returns a value without throwing gives back
returns(value) == [thrown |-> FALSE, ret |-> value]

QueueEnqueue(value) ==
    /\ Len(vectorQueue) < MaxQueueLen
    /\ linkedQueue' = LinkedQueue_enqueue(linkedQueue, value)
    /\ vectorQueue' = Queue_enqueue(vectorQueue, value)
    /\ lastCall' = [op |-> "enqueue", linked |-> returns(NULL), vector |-> returns(NULL)]
    /\ UNCHANGED <<ctlVars, lightVars, laneVars, fileVars, threadVars, feedVars,
                   vehicleVars, priorityVars>>

QueueDequeue ==
    /\ linkedQueue' = LinkedQueue_dequeue(linkedQueue).queue
    /\ vectorQueue' = Queue_dequeue(vectorQueue).elements
    /\ lastCall' = [op |-> "dequeue",
                    linked |-> [thrown |-> LinkedQueue_dequeue(linkedQueue).thrown,
                                ret |-> LinkedQueue_dequeue(linkedQueue).ret],
                    vector |-> [thrown |-> Queue_dequeue(vectorQueue).thrown,
                                ret |-> Queue_dequeue(vectorQueue).ret]]
    /\ UNCHANGED <<ctlVars, lightVars, laneVars, fileVars, threadVars, feedVars,
                   vehicleVars, priorityVars>>

QueuePeek ==
    /\ lastCall' = [op |-> "peek", linked |-> LinkedQueue_peek(linkedQueue),
                    vector |-> Queue_peek(vectorQueue)]
    /\ UNCHANGED <<linkedQueue, vectorQueue>>
    /\ UNCHANGED <<ctlVars, lightVars, laneVars, fileVars, threadVars, feedVars,
                   vehicleVars, priorityVars>>

QueueIsEmpty ==
    /\ lastCall' = [op |-> "isEmpty", linked |-> returns(LinkedQueue_isEmpty(linkedQueue)),
                    vector |-> returns(Queue_isEmpty(vectorQueue))]
    /\ UNCHANGED <<linkedQueue, vectorQueue>>
    /\ UNCHANGED <<ctlVars, lightVars, laneVars, fileVars, threadVars, feedVars,
                   vehicleVars, priorityVars>>

QueueSize ==
    /\ lastCall' = [op |-> "size", linked |-> returns(LinkedQueue_getSize(linkedQueue)),
                    vector |-> returns(Queue_size(vectorQueue))]
    /\ UNCHANGED <<linkedQueue, vectorQueue>>
    /\ UNCHANGED <<ctlVars, lightVars, laneVars, fileVars, threadVars, feedVars,
                   vehicleVars, priorityVars>>

QueueInit ==
    /\ linkedQueue = LinkedQueue_new
    /\ vectorQueue = << >>
    /\ lastCall = [op |-> "none", linked |-> returns(NULL), vector |-> returns(NULL)]

----------------------------------------------------------------------------
(* PriorityQueue of utils/PriorityQueue.h: a vector of elements with their
   priorities, sorted after every change. The comparator given to
   updatePriority is equality of the elements. *)

PriorityValues == 1..MaxPriorityValue

\* PriorityElement(e, p)
PriorityElement(e, p) == [element |-> e, priority |-> p]

\* std::sort(elements.begin(), elements.end(), std::greater<PriorityElement>()):
\* std::sort is not stable, so elements of equal priority come out in any order
sortDescending(q) ==
    IF q = << >> THEN {<< >>}
    ELSE {s \in {[i \in 1..Len(q) |-> q[f[i]]] : f \in Permutations(1..Len(q))} :
             \A i \in 1..(Len(s) - 1) : s[i].priority >= s[i + 1].priority}

\* PriorityQueue::enqueue without the sort
PriorityQueue_enqueue_Unsorted(q, element, elementPriority) ==
    {Append(q, PriorityElement(element, elementPriority))}

\* PriorityQueue::enqueue: the vectors the call can leave
PriorityQueue_enqueue(q, element, elementPriority) ==
    sortDescending(Append(q, PriorityElement(element, elementPriority)))

\* PriorityQueue::dequeue; thrown stands for std::runtime_error("PriorityQueue is empty")
PriorityQueue_dequeue(q) ==
    IF q = << >> THEN [thrown |-> TRUE, ret |-> NULL, elements |-> q]
    ELSE [thrown |-> FALSE, ret |-> Head(q).element, elements |-> Tail(q)]

\* PriorityQueue::peek
PriorityQueue_peek(q) ==
    IF q = << >> THEN [thrown |-> TRUE, ret |-> NULL]
    ELSE [thrown |-> FALSE, ret |-> Head(q).element]

\* std::find_if over the vector: the first position that holds element, or
\* Len(q) + 1 for elements.end()
find_if(q, element) ==
    IF \E i \in 1..Len(q) : q[i].element = element
    THEN CHOOSE i \in 1..Len(q) :
            /\ q[i].element = element
            /\ \A j \in 1..(i - 1) : q[j].element # element
    ELSE Len(q) + 1

\* PriorityQueue::updatePriority: the results the call can have
PriorityQueue_updatePriority(q, element, newPriority) ==
    LET it == find_if(q, element)
    IN IF it # Len(q) + 1
       THEN {[ret |-> TRUE, elements |-> s] :
                s \in sortDescending([q EXCEPT ![it].priority = newPriority])}
       ELSE {[ret |-> FALSE, elements |-> q]}

\* PriorityQueue::clear
PriorityQueue_clear(q) == << >>

PQEnqueue(element, elementPriority) ==
    /\ Len(priorityElements) < MaxStored
    /\ \E s \in PriorityQueue_enqueue(priorityElements, element, elementPriority) :
          priorityElements' = s
    /\ lastPriorityCall' = [op |-> "enqueue", thrown |-> FALSE, ret |-> NULL,
                            before |-> priorityElements]
    /\ UNCHANGED <<ctlVars, lightVars, laneVars, fileVars, threadVars, feedVars,
                   vehicleVars, queueVars>>

PQDequeue ==
    /\ priorityElements' = PriorityQueue_dequeue(priorityElements).elements
    /\ lastPriorityCall' = [op |-> "dequeue",
                            thrown |-> PriorityQueue_dequeue(priorityElements).thrown,
                            ret |-> PriorityQueue_dequeue(priorityElements).ret,
                            before |-> priorityElements]
    /\ UNCHANGED <<ctlVars, lightVars, laneVars, fileVars, threadVars, feedVars,
                   vehicleVars, queueVars>>

PQPeek ==
    /\ lastPriorityCall' = [op |-> "peek",
                            thrown |-> PriorityQueue_peek(priorityElements).thrown,
                            ret |-> PriorityQueue_peek(priorityElements).ret,
                            before |-> priorityElements]
    /\ UNCHANGED priorityElements
    /\ UNCHANGED <<ctlVars, lightVars, laneVars, fileVars, threadVars, feedVars,
                   vehicleVars, queueVars>>

PQUpdatePriority(element, newPriority) ==
    /\ \E r \in PriorityQueue_updatePriority(priorityElements, element, newPriority) :
          /\ priorityElements' = r.elements
          /\ lastPriorityCall' = [op |-> "updatePriority", thrown |-> FALSE,
                                  ret |-> r.ret, before |-> priorityElements]
    /\ UNCHANGED <<ctlVars, lightVars, laneVars, fileVars, threadVars, feedVars,
                   vehicleVars, queueVars>>

PQClear ==
    /\ priorityElements' = PriorityQueue_clear(priorityElements)
    /\ lastPriorityCall' = [op |-> "clear", thrown |-> FALSE, ret |-> NULL,
                            before |-> priorityElements]
    /\ UNCHANGED <<ctlVars, lightVars, laneVars, fileVars, threadVars, feedVars,
                   vehicleVars, queueVars>>

PriorityInit ==
    /\ priorityElements = << >>
    /\ lastPriorityCall = [op |-> "none", thrown |-> FALSE, ret |-> NULL,
                           before |-> << >>]

----------------------------------------------------------------------------
(* Lane::dequeue and Lane::peek called by two threads on one lane. Every
   method of Queue holds the queue's mutex for its whole body; Lane holds no
   lock, so the methods of Queue that one call of Lane::dequeue or Lane::peek
   makes are separate steps. *)

Threads == {"t1", "t2"}

\* Lane::dequeue, thread t evaluates vehicleQueue.isEmpty() and returns
\* nullptr when it is true
DequeueIsEmpty(t) ==
    /\ pc[t] = "idle"
    /\ IF elements = << >>
       THEN /\ outcome' = [outcome EXCEPT ![t] = "nullptr"]
            /\ UNCHANGED pc
       ELSE /\ pc' = [pc EXCEPT ![t] = "dequeue"]
            /\ UNCHANGED outcome
    /\ UNCHANGED <<ctlVars, lightVars, laneVars, fileVars, feedVars, afterFeedVars>>

\* Lane::dequeue, thread t calls vehicleQueue.dequeue(), which throws on an
\* empty queue
DequeueFront(t) ==
    /\ pc[t] = "dequeue"
    /\ \E d \in {Queue_dequeue(elements)} :
          IF d.thrown
          THEN /\ outcome' = [outcome EXCEPT ![t] = "thrown"]
               /\ pc' = [pc EXCEPT ![t] = "idle"]
               /\ UNCHANGED <<elements, dequeued>>
          ELSE /\ elements' = d.elements
               /\ dequeued' = Append(dequeued, d.ret)
               /\ pc' = [pc EXCEPT ![t] = "count"]
               /\ UNCHANGED outcome
    /\ UNCHANGED <<laneName, isPriority, priority, enqueued, removed>>
    /\ UNCHANGED <<ctlVars, lightVars, fileVars, feedVars, afterFeedVars>>

\* Lane::dequeue, thread t reads vehicleQueue.size(), resets the priority
\* and returns the vehicle
DequeueReturn(t) ==
    /\ pc[t] = "count"
    /\ priority' = IF isPriority /\ Len(elements) < PRIORITY_THRESHOLD_LOW /\ priority > 0
                   THEN 0 ELSE priority
    /\ outcome' = [outcome EXCEPT ![t] = "vehicle"]
    /\ pc' = [pc EXCEPT ![t] = "idle"]
    /\ UNCHANGED <<laneName, isPriority, elements, enqueued, dequeued, removed>>
    /\ UNCHANGED <<ctlVars, lightVars, fileVars, feedVars, afterFeedVars>>

\* Lane::peek, thread t evaluates vehicleQueue.isEmpty()
PeekIsEmpty(t) ==
    /\ pc[t] = "idle"
    /\ IF elements = << >>
       THEN /\ outcome' = [outcome EXCEPT ![t] = "nullptr"]
            /\ UNCHANGED pc
       ELSE /\ pc' = [pc EXCEPT ![t] = "peek"]
            /\ UNCHANGED outcome
    /\ UNCHANGED <<ctlVars, lightVars, laneVars, fileVars, feedVars, afterFeedVars>>

\* Lane::peek, thread t calls vehicleQueue.peek(), which throws on an empty
\* queue
PeekFront(t) ==
    /\ pc[t] = "peek"
    /\ outcome' = [outcome EXCEPT ![t] = IF Queue_peek(elements).thrown
                                         THEN "thrown" ELSE "vehicle"]
    /\ pc' = [pc EXCEPT ![t] = "idle"]
    /\ UNCHANGED <<ctlVars, lightVars, laneVars, fileVars, feedVars, afterFeedVars>>

ThreadInit ==
    /\ pc = [t \in Threads |-> "idle"]
    /\ outcome = [t \in Threads |-> "none"]

RestInit == ThreadInit /\ FeedInit /\ VehicleInit /\ QueueInit /\ PriorityInit

----------------------------------------------------------------------------
(* Specifications *)

\* the controllers: constructor state, then update calls and arriving vehicles
CtlInitOf(impls) ==
    /\ impl \in impls
    /\ queueSize = [id \in LaneIds |-> 0]
    /\ isPriorityMode = FALSE
    /\ inPriorityMode = FALSE
    /\ stateTimer = 0
    /\ processingTimer = 0
    /\ trafficLights = synchronizeTrafficLights(FALSE)
    /\ entry = "none"

Init == CtlInitOf({"IC", "TM"}) /\ LightInit /\ LaneInitOf(<<"A", 2>>) /\ FileInit /\ RestInit

Next ==
    \/ \E dt \in DeltaTimes : ICUpdate(dt)
    \/ \E dt \in DeltaTimes : TMUpdate(dt)
    \/ \E id \in ArrivalLanes : AddVehicle(id)

Spec == Init /\ [][Next]_vars

\* the five-state light under update and setNextState calls
InitLight == CtlInitOf({"IC"}) /\ LightInit /\ LaneInitOf(<<"A", 2>>) /\ FileInit /\ RestInit

NextLight ==
    \/ \E step \in TimeSteps : \E lanes \in LaneCounts : TLUpdate(step, lanes)
    \/ \E state \in States : SetNextState(state)

SpecLight == InitLight /\ [][NextLight]_vars

\* the light of a running simulation in normal mode: lane A2 never holds more
\* than PRIORITY_THRESHOLD_HIGH vehicles, update is called forever, the clock
\* advances by whole frames of FrameTime ms (SDL_Delay) between two calls
FrameTime == 16
FrameSteps == {k * FrameTime : k \in 1..MaxFrame}
NormalLaneCounts == {l \in LaneCounts : l["A"] <= PRIORITY_THRESHOLD_HIGH}

NextLive ==
    \E step \in FrameSteps : \E lanes \in NormalLaneCounts : TLUpdate(step, lanes)

SpecLive == InitLight /\ [][NextLive]_vars /\ WF_vars(NextLive)

\* one Lane under enqueue, dequeue and remove calls
InitLane == CtlInitOf({"IC"}) /\ LightInit /\ \E name \in LaneNames : LaneInitOf(name) /\ FileInit /\ RestInit

NextLane ==
    \/ \E vehicle \in {NULL, Len(enqueued) + 1} : LaneEnqueue(vehicle)
    \/ LaneDequeue
    \/ LaneUpdatePriority
    \/ \E matching \in Comparators : QueueRemove(matching)

SpecLane == InitLane /\ [][NextLane]_vars

\* the light updated with the lanes vector that holds lane A2 of the model,
\* the lanes of the other roads being empty
LanesVector == [r \in Roads |-> IF r = "A" THEN Len(elements) ELSE 0]

LightUpdate(step) == TLUpdate(step, LanesVector)

\* lane A2 under enqueue and dequeue calls and the light under update calls,
\* in any order
NextSync ==
    \/ \E vehicle \in {Len(enqueued) + 1} : LaneEnqueue(vehicle)
    \/ LaneDequeue
    \/ \E step \in TimeSteps : LightUpdate(step)

SpecSync == InitLight /\ [][NextSync]_vars

\* one vehicle from its construction, under update calls with any light
NextVehicle ==
    \/ \E spawn \in Spawns : CreateVehicle(spawn[1], spawn[2], spawn[3])
    \/ \E isGreenLight \in BOOLEAN, offScreen \in BOOLEAN :
          VehicleUpdate(isGreenLight, offScreen)

SpecVehicle == InitLight /\ [][NextVehicle]_vars

\* the same calls made on the linked Queue and on the vector Queue
NextQueues ==
    \/ \E value \in QueueValues : QueueEnqueue(value)
    \/ QueueDequeue
    \/ QueuePeek
    \/ QueueIsEmpty
    \/ QueueSize

SpecQueues == InitLight /\ [][NextQueues]_vars

\* calls on one PriorityQueue
NextPriority ==
    \/ \E element \in QueueValues, elementPriority \in PriorityValues :
          PQEnqueue(element, elementPriority)
    \/ \E element \in QueueValues, newPriority \in PriorityValues :
          PQUpdatePriority(element, newPriority)
    \/ PQDequeue
    \/ PQPeek
    \/ PQClear

SpecPriority == InitLight /\ [][NextPriority]_vars

\* one Lane under enqueue calls and two threads that call dequeue and peek
NextRace ==
    \/ \E vehicle \in {Len(enqueued) + 1} : LaneEnqueue(vehicle)
    \/ \E t \in Threads : DequeueIsEmpty(t)
    \/ \E t \in Threads : DequeueFront(t)
    \/ \E t \in Threads : DequeueReturn(t)
    \/ \E t \in Threads : PeekIsEmpty(t)
    \/ \E t \in Threads : PeekFront(t)

SpecRace == InitLane /\ [][NextRace]_vars

\* one Lane filled by enqueue calls, with dequeue calls in between
NextFill ==
    \/ \E vehicle \in {Len(enqueued) + 1} : LaneFill(vehicle)
    \/ LaneDequeue

SpecFill == InitLane /\ [][NextFill]_vars

\* the IntersectionController with vehicles queued before the first update,
\* no further arrivals, and update called forever
InitialLoads ==
    {[id \in LaneIds |->
        IF id = AL2_PRIORITY THEN a
        ELSE IF id = BL2_NORMAL THEN b
        ELSE IF id = AL3_FREELANE THEN c ELSE 0] :
       a \in 0..MaxPriorityLane, b \in 0..MaxOtherLane, c \in 0..MaxOtherLane}

InitDrain ==
    /\ impl = "IC"
    /\ queueSize \in InitialLoads
    /\ isPriorityMode = FALSE
    /\ inPriorityMode = FALSE
    /\ stateTimer = 0
    /\ processingTimer = 0
    /\ trafficLights = synchronizeTrafficLights(FALSE)
    /\ entry = "none"
    /\ LightInit
    /\ LaneInitOf(<<"A", 2>>) /\ FileInit /\ RestInit

NextDrain == \E dt \in DeltaTimes : ICUpdate(dt)

SpecDrain == InitDrain /\ [][NextDrain]_vars /\ WF_vars(NextDrain)

\* either controller in normal mode with vehicles queued in the normal lanes
\* before the first update
StepLoads ==
    {[id \in LaneIds |->
        IF id = AL2_PRIORITY THEN a
        ELSE IF id = BL2_NORMAL THEN b
        ELSE IF id = CL2_NORMAL THEN c ELSE 0] :
       a \in 0..MaxOtherLane, b \in 0..MaxNormalLoad, c \in 0..MaxOtherLane}

InitStep ==
    /\ impl \in {"IC", "TM"}
    /\ queueSize \in StepLoads
    /\ isPriorityMode = FALSE
    /\ inPriorityMode = FALSE
    /\ stateTimer = 0
    /\ processingTimer = 0
    /\ trafficLights = synchronizeTrafficLights(FALSE)
    /\ entry = "none"
    /\ LightInit
    /\ LaneInitOf(<<"A", 2>>) /\ FileInit /\ RestInit

NextStep ==
    \/ \E dt \in DeltaTimes : ICUpdate(dt)
    \/ \E dt \in DeltaTimes : TMUpdate(dt)

SpecStep == InitStep /\ [][NextStep]_vars

\* the controllers with a priority lane that never holds more than
\* PRIORITY_THRESHOLD vehicles: a vehicle is added to AL2 only below the
\* threshold, and the TrafficManager reads its lane files (at most MaxBatch
\* vehicles an update) only when AL2 stays within the threshold with them
CalmArrive ==
    /\ queueSize[AL2_PRIORITY] < PRIORITY_THRESHOLD
    /\ AddVehicle(AL2_PRIORITY)

CalmTMUpdate(deltaTime) ==
    /\ queueSize[AL2_PRIORITY] + MaxBatch <= PRIORITY_THRESHOLD
    /\ TMUpdate(deltaTime)

NextCalm ==
    \/ \E dt \in DeltaTimes : ICUpdate(dt)
    \/ \E dt \in DeltaTimes : CalmTMUpdate(dt)
    \/ CalmArrive

SpecCalm == Init /\ [][NextCalm]_vars

\* the IntersectionController with vehicles arriving in normal lane BL2
\* between its updates
Arrive(id) ==
    /\ impl = "IC"
    /\ queueSize[id] < MaxNormalLoad
    /\ queueSize' = [queueSize EXCEPT ![id] = addVehicle(@)]
    /\ UNCHANGED <<impl, isPriorityMode, inPriorityMode, stateTimer, processingTimer,
                   trafficLights, entry, lightVars, laneVars, fileVars, restVars>>

InitServe == CtlInitOf({"IC"}) /\ LightInit /\ LaneInitOf(<<"A", 2>>) /\ FileInit /\ RestInit

NextServe ==
    \/ \E dt \in DeltaTimes : ICUpdate(dt)
    \/ Arrive(BL2_NORMAL)

SpecServe == InitServe /\ [][NextServe]_vars

\* a lane file written by the generator and read by readVehiclesFromFile
InitFile == CtlInitOf({"IC"}) /\ LightInit /\ LaneInitOf(<<"A", 2>>) /\ FileInit /\ RestInit

NextFile ==
    \/ \E line \in Lines : WriteLine(line)
    \/ \E opened \in BOOLEAN : \E cleared \in BOOLEAN : ReadVehiclesFromFile(opened, cleared)

SpecFile == InitFile /\ [][NextFile]_vars

\* the lane file of one road, written by the generator while the simulator
\* polls it
NextFeed ==
    \/ \E id \in VehicleIds, lane \in GeneratorLanes, n \in GeneratorLaneNumbers,
          dir \in GeneratorDirections : GeneratorWrite(id, lane, n, dir)
    \/ \E opened \in BOOLEAN : ReaderRead(opened)
    \/ \E cleared \in BOOLEAN : ReaderClear(cleared)

SpecFeed == InitFile /\ [][NextFeed]_vars

----------------------------------------------------------------------------
(* Properties of the controllers, checked under Spec *)

\* the priority-mode flag of the controller a behaviour follows
Mode == IF impl = "IC" THEN isPriorityMode ELSE inPriorityMode

FreeLaneIds == {AL3_FREELANE, BL3_FREELANE, CL3_FREELANE, DL3_FREELANE}

\* the result of IntersectionController::update(dt) in the present state
ICResult(dt) ==
    ICUpdateResult(isPriorityMode, queueSize, stateTimer, processingTimer, dt)

\* the increments of totalVehiclesProcessed by update(dt) in the present state
ICProcessed(dt) ==
    ICUpdateProcessed(isPriorityMode, queueSize, stateTimer, processingTimer, dt)

\* the result of TrafficManager::update(dt) in the present state, before
\* checkWaitTimes, when processNewVehicles has left the lanes as q0
TMResult(q0, dt) == TMUpdateResult(inPriorityMode, q0, stateTimer, processingTimer, dt)

\* C1, as stated: once IntersectionController's isPriorityMode has become true
\* with more than 10 vehicles in the priority lane, no update makes it false
\* unless the priority lane holds fewer than 5 vehicles (stated for the updates
\* in which the MAX_STATE_TIME forced flip does not fire).
C1_ExitOnlyBelowFive ==
    (impl = "IC" /\ isPriorityMode /\ entry = "threshold")
       => \A dt \in DeltaTimes :
             \A r \in {ICResult(dt)} :
                (~r.mode /\ stateTimer + dt < MAX_STATE_TIME)
                   => queueSize[AL2_PRIORITY] < 5

\* C1, what the code does: once isPriorityMode is true, an update makes it false only if
\* the priority lane holds at most 5 vehicles and stateTimer has reached
\* MIN_STATE_TIME, or if stateTimer has reached MAX_STATE_TIME (the forced
\* flip); with 6 or more vehicles priority mode ends only by the forced flip.
C1_Hysteresis ==
    (impl = "IC" /\ isPriorityMode)
       => \A dt \in DeltaTimes :
             \A r \in {ICResult(dt)} :
             ~r.mode
                => \/ queueSize[AL2_PRIORITY] <= 5 /\ stateTimer + dt >= 5
                   \/ stateTimer + dt >= 30

\* priority mode, entered above the threshold, held with 6 to 10 vehicles
\* after the minimum dwell time
C1_Witness ==
    /\ impl = "IC"
    /\ isPriorityMode
    /\ entry = "threshold"
    /\ queueSize[AL2_PRIORITY] \in 6..10
    /\ stateTimer >= 5

\* C3: the priority-mode flag of either controller changes only in an update
\* whose stateTimer (deltaTime added) is at least MIN_STATE_TIME, which covers
\* the forced flip at MAX_STATE_TIME; the change resets stateTimer to 0; and no
\* call of handleStateTransition assigns the flag in both of its branches.
C3_DwellTime ==
    \A dt \in DeltaTimes :
        /\ impl = "IC" =>
              \A r \in {ICResult(dt)} :
              \A t \in {handleStateTransition(isPriorityMode, queueSize, stateTimer + dt,
                                              processingTimer + dt)} :
                 /\ (r.mode # isPriorityMode) => (stateTimer + dt >= 5 /\ r.timer = 0)
                 /\ ~(t.natural /\ t.forced)
        /\ impl = "TM" =>
              \A q0 \in ArrivalOutcomes(queueSize) :
              \A r \in {TMResult(q0, dt)} :
              \A t \in {TM_handleStateTransition(inPriorityMode, q0, stateTimer + dt)} :
                 /\ (r.mode # inPriorityMode) => (stateTimer + dt >= 5 /\ r.timer = 0)
                 /\ ~(t.natural /\ t.forced)

\* the TrafficManager has just entered priority mode above the threshold
C3_Witness == impl = "TM" /\ inPriorityMode /\ stateTimer = 0 /\ entry = "threshold"

\* C7: after every IntersectionController::update the four free lanes are empty
C7_FreeLanesDrained ==
    impl = "IC" =>
       \A dt \in DeltaTimes :
          \A r \in {ICResult(dt)} : \A id \in FreeLaneIds : r.q[id] = 0

\* in priority mode, between two processing steps, vehicles wait in two free
\* lanes for the next update
C7_Witness ==
    /\ impl = "IC"
    /\ isPriorityMode
    /\ processingTimer > 0
    /\ queueSize[AL3_FREELANE] > 0
    /\ queueSize[BL3_FREELANE] > 0
    /\ queueSize[BL2_NORMAL] > 0

\* C10: in normal mode with more than 10 vehicles in AL2, an update whose
\* stateTimer (deltaTime added) is at least 5 s leaves the flag true and
\* stateTimer at 0
C10_PriorityEntry ==
    (~Mode /\ queueSize[AL2_PRIORITY] > 10)
       => \A dt \in DeltaTimes :
             stateTimer + dt >= 5
                => /\ impl = "IC" => \A r \in {ICResult(dt)} : r.mode /\ r.timer = 0
                   /\ impl = "TM" =>
                         \A q0 \in ArrivalOutcomes(queueSize) :
                            \A r \in {TMResult(q0, dt)} : r.mode /\ r.timer = 0

\* normal mode, 11 vehicles in the priority lane, every other lane empty, and
\* the dwell time reached at the next update
C10_Witness ==
    /\ impl = "IC"
    /\ ~isPriorityMode
    /\ queueSize[AL2_PRIORITY] = 11
    /\ \A id \in LaneIds \ {AL2_PRIORITY} : queueSize[id] = 0
    /\ stateTimer + 1 >= 5

----------------------------------------------------------------------------
(* Properties of the five-state light, checked under SpecLight *)

\* C2: an update of the TrafficLight makes its isPriorityMode true only if it
\* observes more than 10 vehicles in lane A2, makes it false only if the flag
\* was true and it observes fewer than 5, and leaves it as it was when it
\* observes 5 to 10.
C2_LightHysteresis ==
    \A step \in TimeSteps : \A lanes \in LaneCounts :
       \A r \in {TLResult(step, lanes)} :
          /\ (r.mode /\ ~lightPriorityMode) => lanes["A"] > 10
          /\ (~r.mode /\ lightPriorityMode) => lanes["A"] < 5
          /\ lanes["A"] \in 5..10 => r.mode = lightPriorityMode

\* the light is in priority mode, some time after it entered it
C2_Witness == lightPriorityMode /\ currentState = A_GREEN /\ sinceStateChange > 0

\* C4: isGreen holds for at most one road, and for none in ALL_RED
C4_OneGreen ==
    /\ Cardinality({r \in Roads : isGreen(currentState, r)}) <= 1
    /\ currentState = ALL_RED => \A r \in Roads : ~isGreen(currentState, r)

\* road B has the green light
C4_Witness == currentState = B_GREEN /\ isGreen(currentState, "B")

\* C5, as stated, for one update: an update that starts in a green state (with
\* nextState = ALL_RED, as every update leaves it on entering a green state)
\* never ends in a different green state.
C5_NoGreenToGreen ==
    (currentState \in GreenStates /\ nextState = ALL_RED)
       => \A step \in TimeSteps : \A lanes \in LaneCounts :
             \A r \in {TLResult(step, lanes)} : r.cur \in {currentState, ALL_RED}

\* C6, as stated: in normal mode, when A_GREEN's duration has elapsed the
\* update goes to ALL_RED with nextState = B_GREEN.
C6_Rotation ==
    (currentState = A_GREEN /\ nextState = ALL_RED /\ ~lightPriorityMode)
       => \A step \in TimeSteps :
          \A lanes \in {l \in LaneCounts : l["A"] <= PRIORITY_THRESHOLD_HIGH} :
             \A r \in {TLResult(step, lanes)} :
                r.cur # A_GREEN => (r.cur = ALL_RED /\ r.nxt = B_GREEN)

\* clamp(x, lo, hi)
Clamp(x, lo, hi) == IF x < lo THEN lo ELSE IF x > hi THEN hi ELSE x

\* C9: in normal mode an update leaves a green state exactly when the time
\* since the last change has reached clamp(trunc(avg * 2000), 3000, 15000) ms,
\* avg being the value of calculateAverageVehicleCount; empty lanes give
\* 3000, an average of 4 gives 8000, an average of 100 gives 15000, and the
\* duration always lies in 3000..15000.
C9_GreenDuration ==
    (currentState \in GreenStates /\ ~lightPriorityMode)
       => \A step \in TimeSteps :
          \A lanes \in {l \in LaneCounts : l["A"] <= PRIORITY_THRESHOLD_HIGH} :
             \A r \in {TLResult(step, lanes)} :
             \A avg \in {calculateAverageVehicleCount(lanes, FALSE)} :
                LET expected == Clamp((avg[1] * 2000) \div avg[2], 3000, 15000)
                IN /\ r.changed <=> (sinceStateChange + step >= expected)
                   /\ stateDuration(avg) = expected
                   /\ expected \in 3000..15000
                   /\ (\A road \in Roads : lanes[road] = 0) => stateDuration(avg) = 3000
                   /\ avg[1] = 4 * avg[2] => stateDuration(avg) = 8000
                   /\ avg[1] = 100 * avg[2] => stateDuration(avg) = 15000

\* a normal-mode green state 7000 ms old: with an average of 4 vehicles the
\* next update, 1000 ms later, is the first that leaves it
C9_Witness ==
    /\ currentState = A_GREEN
    /\ nextState = ALL_RED
    /\ ~lightPriorityMode
    /\ sinceStateChange = 7000

----------------------------------------------------------------------------
(* Properties of Queue and Lane, checked under SpecLane *)

NotRemoved(v) == v \notin removed

\* q without its i-th element
WithoutIndex(q, i) == [j \in 1..(Len(q) - 1) |-> IF j < i THEN q[j] ELSE q[j + 1]]

\* C8: the vehicles dequeue has returned, followed by those still queued, are
\* the vehicles enqueued and not erased by remove, in enqueue order; peek
\* returns what the next dequeue returns; remove erases exactly one matching
\* element, keeps the order of the others, and changes nothing without a match.
C8_FIFO ==
    /\ dequeued \o elements = SelectSeq(enqueued, NotRemoved)
    /\ Lane_peek(elements) = Lane_dequeue(elements, isPriority, priority).ret
    /\ elements # << >> => Queue_peek(elements).ret = Queue_dequeue(elements).ret
    /\ \A matching \in Comparators :
          \A r \in {Queue_remove(elements, matching)} :
             LET hits == {i \in 1..Len(elements) : elements[i] \in matching}
             IN IF hits = {}
                THEN ~r.ret /\ r.elements = elements
                ELSE r.ret /\ \E i \in hits : r.elements = WithoutIndex(elements, i)

\* vehicles have been dequeued, one has been erased out of the middle, and
\* several still wait
C8_Witness ==
    /\ Len(dequeued) >= 2
    /\ Len(elements) >= 2
    /\ \E v \in removed : v > dequeued[Len(dequeued)] /\ v < elements[Len(elements)]

----------------------------------------------------------------------------
(* Further properties of the controllers, checked under Spec *)

\* C11: in priority mode with fewer than 5 vehicles in the priority lane, an
\* update whose stateTimer (deltaTime added) is at least 5 s leaves the
\* priority-mode flag false, in the IntersectionController and (the lane being
\* below 5 when handleStateTransition runs) in the TrafficManager.
C11_PriorityExit ==
    \A dt \in DeltaTimes :
       (Mode /\ stateTimer + dt >= 5)
          => /\ (impl = "IC" /\ queueSize[AL2_PRIORITY] < 5)
                   => \A r \in {ICResult(dt)} : ~r.mode
             /\ impl = "TM"
                   => \A q0 \in {q \in ArrivalOutcomes(queueSize) : q[AL2_PRIORITY] < 5} :
                         \A r \in {TMResult(q0, dt)} : ~r.mode

\* priority mode with 4 vehicles in the priority lane, one second before the
\* minimum dwell time is reached
C11_Witness ==
    /\ impl = "IC"
    /\ isPriorityMode
    /\ queueSize[AL2_PRIORITY] = 4
    /\ stateTimer = 4

\* C12: an update whose stateTimer (deltaTime added) has reached MAX_STATE_TIME
\* and in which no threshold transition fires inverts the priority-mode flag
\* and resets stateTimer, whatever the priority lane holds; stateTimer, the
\* time spent in the present mode, is below 30 s after every update.
C12_ForcedFlip ==
    /\ stateTimer < MAX_STATE_TIME
    /\ \A dt \in DeltaTimes :
          /\ impl = "IC" =>
                \A r \in {ICResult(dt)} :
                \A t \in {handleStateTransition(isPriorityMode, queueSize, stateTimer + dt,
                                                processingTimer + dt)} :
                   /\ r.timer < MAX_STATE_TIME
                   /\ (stateTimer + dt >= MAX_STATE_TIME /\ ~t.natural)
                         => (r.mode = ~isPriorityMode /\ r.timer = 0)
          /\ impl = "TM" =>
                \A q0 \in ArrivalOutcomes(queueSize) :
                \A r \in {TMResult(q0, dt)} :
                \A t \in {TM_handleStateTransition(inPriorityMode, q0, stateTimer + dt)} :
                   /\ r.timer < MAX_STATE_TIME
                   /\ (stateTimer + dt >= MAX_STATE_TIME /\ ~t.natural)
                         => (r.mode = ~inPriorityMode /\ r.timer = 0)

\* priority mode has lasted 29 s with more than 5 vehicles in the priority
\* lane: the next update reaches MAX_STATE_TIME with no threshold transition
C12_Witness ==
    /\ impl = "IC"
    /\ isPriorityMode
    /\ stateTimer = MAX_STATE_TIME - 1
    /\ queueSize[AL2_PRIORITY] > NORMAL_THRESHOLD

\* C13, as stated, for the arrival pattern with no further arrivals: under
\* IntersectionController::update called forever every queued vehicle is
\* eventually dequeued, so every lane is eventually empty (checked under
\* SpecDrain).
C13_NoStarvation == <>(\A id \in LaneIds : queueSize[id] = 0)

\* C14, as stated: with exactly 5 vehicles in the priority lane and stateTimer
\* (deltaTime added) below MAX_STATE_TIME, an update of either controller in
\* priority mode leaves it in priority mode.
C14_StaysAtFive ==
    \A dt \in DeltaTimes :
       (Mode /\ stateTimer + dt < MAX_STATE_TIME)
          => /\ (impl = "IC" /\ queueSize[AL2_PRIORITY] = 5)
                   => \A r \in {ICResult(dt)} : r.mode
             /\ impl = "TM"
                   => \A q0 \in {q \in ArrivalOutcomes(queueSize) : q[AL2_PRIORITY] = 5} :
                         \A r \in {TMResult(q0, dt)} : r.mode

----------------------------------------------------------------------------
(* Further properties of the five-state light, checked under SpecLight *)

\* C15: while the light's isPriorityMode is set, currentState after every
\* update is A_GREEN or ALL_RED; an ALL_RED shown in priority mode began at
\* the update that entered priority mode or later, and the first update
\* 2000 ms or more after its beginning shows A_GREEN; an update that keeps
\* priority mode leaves A_GREEN only after 6000 ms of A_GREEN, for ALL_RED
\* with A_GREEN next.
C15_PriorityCycle ==
    /\ lightPriorityMode => currentState \in {A_GREEN, ALL_RED}
    /\ \A step \in TimeSteps : \A lanes \in LaneCounts :
          \A r \in {TLResult(step, lanes)} :
             r.mode =>
                /\ r.cur \in {A_GREEN, ALL_RED}
                /\ (~lightPriorityMode /\ r.cur = ALL_RED) => r.changed
                /\ (lightPriorityMode /\ currentState = ALL_RED
                       /\ sinceStateChange + step >= allRedDuration) => r.cur = A_GREEN
                /\ (currentState = A_GREEN /\ r.cur # A_GREEN)
                      => /\ sinceStateChange + step >= priorityGreenDuration
                         /\ r.cur = ALL_RED
                         /\ r.nxt = A_GREEN

\* priority mode with A_GREEN shown for 5000 ms: the next update, 1000 ms
\* later, starts the ALL_RED pulse
C15_Witness ==
    /\ lightPriorityMode
    /\ currentState = A_GREEN
    /\ sinceStateChange = 5000

\* C16: every ALL_RED phase lasts allRedDuration: no update changes
\* currentState from ALL_RED to a green state before 2000 ms have passed
\* since ALL_RED was entered, whatever the mode and the lane loads.
C16_AllRedDuration ==
    \A step \in TimeSteps : \A lanes \in LaneCounts :
       \A r \in {TLResult(step, lanes)} :
          (currentState = ALL_RED /\ r.cur \in GreenStates)
             => sinceStateChange + step >= allRedDuration

----------------------------------------------------------------------------
(* Properties of the processing steps, checked under Spec *)

NormalShare(q) ==
    LET normal == LaneIds \ (FreeLaneIds \cup {AL2_PRIORITY})
    IN CeilDiv(SumSizes(q, normal), Cardinality(normal))

\* C18 (checked under SpecStep): a processing step of normal mode, in the
\* IntersectionController and in the TrafficManager, removes from every lane
\* that is neither free nor the priority lane exactly min(lane size,
\* ceil(S / n)) vehicles, S and n taken before the step, and leaves the
\* priority lane as it was.
C18_NormalStep ==
    \A p \in {processNormalLanes(queueSize),
              TM_processNormalLanes(queueSize, TM_calculateVehiclesToProcess(queueSize))} :
       /\ \A id \in LaneIds \ (FreeLaneIds \cup {AL2_PRIORITY}) :
             p[id] = queueSize[id] - Min(queueSize[id], NormalShare(queueSize))
       /\ p[AL2_PRIORITY] = queueSize[AL2_PRIORITY]

\* an update in normal mode whose processing step is due takes ceil(S / n) = 2
\* vehicles from a lane that holds more
C18_Witness ==
    /\ ~Mode
    /\ queueSize[BL2_NORMAL] > 2
    /\ queueSize[AL2_PRIORITY] > 0
    /\ NormalShare(queueSize) = 2
    /\ \E dt \in DeltaTimes :
          \E r \in {IF impl = "IC" THEN ICResult(dt) ELSE TMResult(queueSize, dt)} :
             ~r.mode /\ r.q[BL2_NORMAL] = queueSize[BL2_NORMAL] - 2

----------------------------------------------------------------------------
(* Properties of the green duration, checked under SpecLight *)

\* C19: the average that gives the normal-mode green duration is taken over
\* the normal lanes only, the priority lane A2 never contributing: two
\* updates of a light in normal mode that differ only in the vehicle count
\* of A2 (neither above the priority threshold) leave the same state.
C19_PriorityLaneNotCounted ==
    (~lightPriorityMode /\ currentState \in GreenStates)
       => \A step \in TimeSteps : \A lanes \in LaneCounts : \A a \in PriorityCounts :
             (lanes["A"] <= PRIORITY_THRESHOLD_HIGH /\ a <= PRIORITY_THRESHOLD_HIGH)
                => TLResult(step, lanes).cur
                      = TLResult(step, [lanes EXCEPT !["A"] = a]).cur

----------------------------------------------------------------------------
(* Properties of the lane-file reader, checked under SpecFile *)

\* a line with no ':', with nothing after its first ':', or whose character
\* after the first ':' is none of A, B, C, D
Malformed(line) ==
    \/ \A i \in 1..Len(line) : line[i] # ":"
    \/ \E i \in 1..Len(line) :
          /\ line[i] = ":"
          /\ \A j \in 1..(i - 1) : line[j] # ":"
          /\ (i = Len(line) \/ line[i + 1] \notin {"A", "B", "C", "D"})

\* the lines of a file a vehicle is created for
Accepted(line) == line # << >> /\ parseVehicleLine(line) # nullptr

\* C20: parseVehicleLine returns no vehicle for a line with no ':', with
\* nothing after the ':' or with a character other than A, B, C, D after it;
\* readVehiclesFromFile drops such lines and returns, in file order, exactly
\* the vehicles of the other lines it read (every one with a lane A..D), so
\* no vehicle comes from a malformed line.
C20_MalformedLinesDropped ==
    /\ \A i \in 1..Len(fileLines) :
          Malformed(fileLines[i]) => parseVehicleLine(fileLines[i]) = nullptr
    /\ \A opened \in BOOLEAN : \A cleared \in BOOLEAN :
          \A r \in {readVehiclesFromFile(fileLines, opened, cleared)} :
             /\ Len(r.vehicles) <= Len(SelectSeq(fileLines, Accepted))
             /\ opened => Len(r.vehicles) = Len(SelectSeq(fileLines, Accepted))
    /\ \A j \in 1..Len(returned) :
          /\ returned[j].lane \in {"A", "B", "C", "D"}
          /\ j <= Len(SelectSeq(lastRead, Accepted))
          /\ \A line \in {SelectSeq(lastRead, Accepted)[j]} :
                /\ ~Malformed(line)
                /\ returned[j].id = SubSeq(line, 1, Len(returned[j].id))
                /\ line[Len(returned[j].id) + 1] = ":"
                /\ line[Len(returned[j].id) + 2] = returned[j].lane
    /\ Len(returned) = Len(SelectSeq(lastRead, Accepted))

\* a file of a line without ':' and a well-formed line has been read: one
\* vehicle was returned
C20_Witness ==
    /\ lastRead = << <<"g", "a", "r", "b", "a", "g", "e", "_", "n", "o", "_", "c", "o", "l", "o", "n">>,
                     <<"V", "1", "_", "L", "2", ":", "A">> >>
    /\ Len(returned) = 1
    /\ returned[1].lane = "A"
    /\ fileLines = << >>

\* the id of the line (the part before the first ':') has a lane tag, its
\* first "_L" followed by a character, and the tag names lane 1
TaggedLane1(line) ==
    \E p \in 1..(Len(line) - 3) :
       /\ SubSeq(line, p, p + 2) = <<"_", "L", "1">>
       /\ \A q \in 1..(p + 2) : line[q] # ":"
       /\ \A q \in 1..(p - 1) : SubSeq(line, q, q + 1) # <<"_", "L">>
       /\ \E q \in (p + 3)..Len(line) : line[q] = ":"

----------------------------------------------------------------------------
(* Further properties of the TrafficManager, checked under Spec *)

\* C22: TrafficManager::processNewVehicles never adds a vehicle to an
\* incoming lane: after any sequence of TrafficManager::update calls the
\* lanes AL1, BL1, CL1 and DL1 are empty.
C22_IncomingLanesEmpty ==
    impl = "TM"
       => \A id \in {AL1_INCOMING, BL1_INCOMING, CL1_INCOMING, DL1_INCOMING} :
             queueSize[id] = 0

\* C23: every TrafficManager::update call empties the four free lanes, also
\* when processingTimer has not reached VEHICLE_PROCESS_TIME, in priority
\* mode and in normal mode.
C23_TMFreeLanesDrained ==
    impl = "TM"
       => \A dt \in DeltaTimes : \A q0 \in ArrivalOutcomes(queueSize) :
             \A r \in {TMResult(q0, dt)} :
                \A id \in FreeLaneIds : r.q[id] = 0

----------------------------------------------------------------------------
(* Properties of the IntersectionController under arrivals in a normal lane,
   checked under SpecServe *)

\* C24: an IntersectionController::update made in priority mode, and ending
\* in it, dequeues only from the priority lane and the free lanes: every
\* normal gated lane holds after the update what it held before.
C24_PriorityServedAlone ==
    (impl = "IC" /\ isPriorityMode)
       => \A dt \in DeltaTimes :
             \A r \in {ICResult(dt)} :
                r.mode => \A id \in LaneIds \ (FreeLaneIds \cup {AL2_PRIORITY}) :
                             r.q[id] = queueSize[id]

----------------------------------------------------------------------------
(* Further properties of Lane, checked under SpecLane *)

\* C25: after any sequence of Lane::enqueue, Lane::dequeue and
\* Lane::updatePriority calls (no Queue::remove has erased a vehicle), a lane
\* other than A2 has priority 0; lane A2 has priority 100 or 0, 100 only with
\* 5 vehicles or more and 0 only with 10 or fewer; the enqueue that makes the
\* count 11 sets 100, the dequeue that makes it 4 sets 0, and no call that
\* leaves the count between 5 and 10 changes the priority.
C25_LanePriority ==
    removed = {} =>
       /\ ~isPriority => priority = 0
       /\ priority \in {0, 100}
       /\ priority = 100 => Len(elements) >= 5
       /\ (isPriority /\ priority = 0) => Len(elements) <= 10
       /\ Lane_updatePriority(elements, isPriority, priority) = priority
       /\ \A e \in {Lane_enqueue(elements, isPriority, priority, Len(enqueued) + 1)} :
             /\ (isPriority /\ Len(e.elements) > 10) => e.priority = 100
             /\ Len(e.elements) \in 5..10 => e.priority = priority
       /\ \A d \in {Lane_dequeue(elements, isPriority, priority)} :
             /\ (elements # << >> /\ Len(d.elements) < 5) => d.priority = 0
             /\ Len(d.elements) \in 5..10 => d.priority = priority

\* lane A2 after 11 enqueues and 6 dequeues: 5 vehicles, priority still 100
C25_Witness ==
    /\ isPriority
    /\ removed = {}
    /\ priority = 100
    /\ Len(elements) = 5

\* C26: on an empty lane Lane::dequeue and Lane::peek return nullptr, do not
\* throw, and leave the queue, the vehicle count and the priority unchanged.
C26_EmptyLane ==
    elements = << >> =>
       /\ \A d \in {Lane_dequeue(elements, isPriority, priority)} :
             /\ ~d.thrown
             /\ d.ret = NULL
             /\ d.elements = elements
             /\ Len(d.elements) = 0
             /\ d.priority = priority
       /\ Lane_peek(elements) = NULL
       /\ ~Lane_peekThrown(elements)

\* a lane emptied by dequeue calls
C26_Witness ==
    /\ elements = << >>
    /\ Len(dequeued) >= 2
    /\ removed = {}

\* C27: Lane::enqueue with a null vehicle leaves the queue, the vehicle
\* count and the priority unchanged; with a non-null vehicle the count grows
\* by exactly one, the vehicles already queued keep their places and the new
\* vehicle is the tail.
C27_Enqueue ==
    /\ \A e \in {Lane_enqueue(elements, isPriority, priority, NULL)} :
          /\ e.elements = elements
          /\ e.priority = priority
    /\ \A vehicle \in {Len(enqueued) + 1} :
          \A e \in {Lane_enqueue(elements, isPriority, priority, vehicle)} :
             /\ Len(e.elements) = Len(elements) + 1
             /\ e.elements[Len(e.elements)] = vehicle
             /\ SubSeq(e.elements, 1, Len(elements)) = elements
    /\ (elements # << >> /\ removed = {} /\ enqueued # << >>)
          => elements[Len(elements)] = enqueued[Len(enqueued)]

\* vehicles have been enqueued behind waiting ones, after a dequeue
C27_Witness ==
    /\ Len(elements) >= 3
    /\ Len(dequeued) >= 1
    /\ elements[Len(elements)] = enqueued[Len(enqueued)]

----------------------------------------------------------------------------
(* The statistics of the IntersectionController, checked under Spec *)

\* C28: totalVehiclesProcessed never decreases and counts the vehicles the
\* controller has removed: every update adds to it exactly the number of
\* vehicles by which the 12 lanes together have shrunk, so that (vehicles ever
\* enqueued) = (vehicles queued) + totalVehiclesProcessed is kept by every
\* update, as it is by every enqueue.
C28_ProcessedCount ==
    impl = "IC"
       => \A dt \in DeltaTimes :
             \A r \in {ICResult(dt)} :
                \A processed \in {ICProcessed(dt)} :
                   /\ processed >= 0
                   /\ processed = SumSizes(queueSize, LaneIds) - SumSizes(r.q, LaneIds)

\* an update in priority mode that takes vehicles out of the priority lane
\* and out of a free lane
C28_Witness ==
    /\ impl = "IC"
    /\ queueSize[AL2_PRIORITY] > PRIORITY_RELEASE_THRESHOLD + 1
    /\ queueSize[AL3_FREELANE] > 0
    /\ \E dt \in DeltaTimes :
          \E r \in {ICResult(dt)} :
             /\ r.mode
             /\ r.q[AL2_PRIORITY] = PRIORITY_RELEASE_THRESHOLD
             /\ ICProcessed(dt) >= 3

----------------------------------------------------------------------------
(* The capacity of a Lane, checked under SpecFill *)

\* C29: after any sequence of Lane::enqueue calls no lane's queue holds more
\* than MAX_QUEUE_SIZE vehicles.
C29_QueueBounded == Len(elements) <= MAX_QUEUE_SIZE

----------------------------------------------------------------------------
(* The rotation of the TrafficLight, checked under SpecLive *)

\* C30: in normal mode, with update called forever, each of A_GREEN, B_GREEN,
\* C_GREEN and D_GREEN is shown infinitely often.
C30_EveryGreenShown ==
    /\ []<>(currentState = A_GREEN)
    /\ []<>(currentState = B_GREEN)
    /\ []<>(currentState = C_GREEN)
    /\ []<>(currentState = D_GREEN)

----------------------------------------------------------------------------
(* The mode of the controllers under a light priority lane, checked under
   SpecCalm *)

\* C31: while the priority lane never holds more than 10 vehicles, neither
\* controller is in priority mode: isPriorityMode and inPriorityMode are false
\* after every update.
C31_NoPriorityBelowThreshold ==
    /\ queueSize[AL2_PRIORITY] <= PRIORITY_THRESHOLD
    /\ ~isPriorityMode
    /\ ~inPriorityMode

----------------------------------------------------------------------------
(* Lane::dequeue and Lane::peek under two threads, checked under SpecRace *)

\* C32: whatever the interleaving of two threads that call Lane::dequeue and
\* Lane::peek on one lane, no call throws the empty-queue error, and no
\* vehicle is returned by two dequeue calls.
C32_NoThrowUnderThreads ==
    /\ \A t \in Threads : outcome[t] # "thrown"
    /\ \A i, j \in 1..Len(dequeued) : i # j => dequeued[i] # dequeued[j]

----------------------------------------------------------------------------
(* The lane file as a channel, checked under SpecFeed *)

\* C33: no line is lost between write_vehicle and readVehiclesFromFile: every
\* well-formed line the generator has appended is still in the file, or is
\* held by a poll that has read it and not yet returned, or has become a
\* vehicle.
C33_NoLineLost ==
    \A line \in written :
        parseVehicleLine(line) # nullptr
           => \/ \E i \in 1..Len(fileLines) : fileLines[i] = line
              \/ readerPc = "clear" /\ \E i \in 1..Len(lastRead) : lastRead[i] = line
              \/ delivered[line] > 0

\* C34: each line written to a lane file becomes a vehicle at most once,
\* whatever the polls and the outcomes of their attempts to clear the file.
C34_NoDuplicates == \A line \in GeneratedLines : delivered[line] <= 1


----------------------------------------------------------------------------
(* The four lights of the TrafficManager, checked under Spec *)

\* C35: after every TrafficManager::update the four lights agree with the
\* mode: in priority mode the AL2 light is GREEN and the BL2, CL2 and DL2
\* lights are RED; in normal mode BL2 and DL2 show one state, AL2 and CL2 the
\* opposite one, and the pair BL2/DL2 is the green one exactly while
\* stateTimer is in the first 10 s of each 20 s.
C35_LightsFollowMode ==
    impl = "TM"
       => /\ inPriorityMode
               => /\ trafficLights[AL2_PRIORITY] = "GREEN"
                  /\ \A id \in GatedLights \ {AL2_PRIORITY} : trafficLights[id] = "RED"
          /\ ~inPriorityMode
               => /\ trafficLights[BL2_NORMAL] = trafficLights[DL2_NORMAL]
                  /\ trafficLights[AL2_PRIORITY] = trafficLights[CL2_NORMAL]
                  /\ trafficLights[AL2_PRIORITY] # trafficLights[BL2_NORMAL]
                  /\ trafficLights[BL2_NORMAL] = "GREEN" <=> (stateTimer % 20) < 10
          /\ ~(trafficLights[AL2_PRIORITY] = "GREEN" /\ trafficLights[BL2_NORMAL] = "GREEN")
          /\ ~(trafficLights[CL2_NORMAL] = "GREEN" /\ trafficLights[DL2_NORMAL] = "GREEN")

\* the TrafficManager in normal mode after the pairs have swapped: AL2 and
\* CL2 are green
C35_Witness ==
    /\ impl = "TM"
    /\ ~inPriorityMode
    /\ stateTimer >= 10
    /\ trafficLights[AL2_PRIORITY] = "GREEN"
    /\ trafficLights[CL2_NORMAL] = "GREEN"
    /\ trafficLights[BL2_NORMAL] = "RED"


----------------------------------------------------------------------------
(* The priority flag of the light and the priority of lane A2, checked under
   SpecSync *)

\* C36: after every TrafficLight::update the light's isPriorityMode is true
\* exactly when lane A2's priority is above 0, whatever enqueue, dequeue and
\* update calls came before.
C36_FlagFollowsLanePriority ==
    \A step \in TimeSteps :
        \A r \in {TLResult(step, LanesVector)} : r.mode <=> priority > 0


----------------------------------------------------------------------------
(* The movement of a free-lane vehicle, checked under SpecVehicle *)

\* C37: a vehicle created on lane 3 is advanced by every Vehicle::update call,
\* whatever isGreenLight is, as long as it has waypoints ahead: before and
\* after it has turned into its destination road.
C37_FreeLaneAlwaysMoves ==
    (/\ spawnLaneNumber = 3
     /\ movingVehicle.state # "EXITED"
     /\ movingVehicle.currentWaypoint < movingVehicle.waypoints - 1)
       => \A isGreenLight \in BOOLEAN, offScreen \in BOOLEAN :
             \A v \in {update(movingVehicle, isGreenLight, offScreen)} :
                <<v.currentWaypoint, v.covered>> # <<movingVehicle.currentWaypoint, movingVehicle.covered>>


----------------------------------------------------------------------------
(* The lane a new vehicle is put in, checked under SpecStep *)

\* C38: for every direction and every source lane, with the lanes as they
\* are, determineOptimalLane gives a lane of the source lane's road that
\* isValidSpawnLane accepts, so processNewVehicles enqueues the vehicle.
C38_SpawnLaneValid ==
    impl = "TM"
       => \A direction \in Directions, sourceLane \in LaneIds :
             \A optimalLane \in {determineOptimalLane(queueSize, direction, sourceLane)} :
                /\ optimalLane \in LaneIds
                /\ optimalLane \div 3 = sourceLane \div 3
                /\ isValidSpawnLane(optimalLane, direction)
                /\ processNewVehicles(queueSize,
                                      <<[lane |-> sourceLane, direction |-> direction]>>)
                      = [queueSize EXCEPT ![optimalLane] = @ + 1]

\* the TrafficManager with more vehicles in AL1 than in AL2, where a vehicle
\* that goes straight is put in AL2 and one that turns right in AL1
C38_Witness ==
    /\ impl = "TM"
    /\ queueSize[AL1_INCOMING] > queueSize[AL2_PRIORITY]
    /\ determineOptimalLane(queueSize, STRAIGHT, AL2_PRIORITY) = AL2_PRIORITY
    /\ determineOptimalLane(queueSize, RIGHT, AL2_PRIORITY) = AL1_INCOMING
    /\ determineOptimalLane(queueSize, LEFT, AL2_PRIORITY) = AL3_FREELANE


----------------------------------------------------------------------------
(* The linked Queue against the vector Queue, checked under SpecQueues *)

\* the values in the nodes linked from front, in link order
LinkedData(l) == [i \in 1..Len(Linked(l.heap, l.front)) |-> l.heap[Linked(l.heap, l.front)[i]].data]

\* C39: after the same calls, every call returns the same value, or throws,
\* on the linked Queue as on the vector Queue; the size field of the linked
\* Queue is the number of linked nodes, and front is null exactly when rear
\* is null.
C39_QueuesEquivalent ==
    /\ lastCall.linked = lastCall.vector
    /\ LinkedQueue_peek(linkedQueue) = Queue_peek(vectorQueue)
    /\ LinkedQueue_isEmpty(linkedQueue) = Queue_isEmpty(vectorQueue)
    /\ LinkedQueue_getSize(linkedQueue) = Queue_size(vectorQueue)
    /\ LinkedQueue_dequeue(linkedQueue).thrown = Queue_dequeue(vectorQueue).thrown
    /\ LinkedQueue_dequeue(linkedQueue).ret = Queue_dequeue(vectorQueue).ret
    /\ LinkedData(linkedQueue) = vectorQueue
    /\ linkedQueue.size = Len(Linked(linkedQueue.heap, linkedQueue.front))
    /\ (linkedQueue.front = nullNode) <=> (linkedQueue.rear = nullNode)
    /\ linkedQueue.rear # nullNode
          => /\ linkedQueue.rear \in DOMAIN linkedQueue.heap
             /\ linkedQueue.heap[linkedQueue.rear].next = nullNode

\* a dequeue that returned the same value from both queues and left both
\* empty, the linked Queue with front and rear null
C39_Witness ==
    /\ lastCall.op = "dequeue"
    /\ ~lastCall.linked.thrown
    /\ lastCall.linked.ret = MaxValue
    /\ vectorQueue = << >>
    /\ linkedQueue.front = nullNode
    /\ linkedQueue.rear = nullNode


----------------------------------------------------------------------------
(* The order of the PriorityQueue, checked under SpecPriority *)

\* the largest priority stored in q
maxPriority(q) == CHOOSE p \in {q[i].priority : i \in 1..Len(q)} :
                     \A i \in 1..Len(q) : q[i].priority <= p

\* q holds element with the largest priority stored in q
holdsAtMaxPriority(q, element) ==
    \E i \in 1..Len(q) : q[i].element = element /\ q[i].priority = maxPriority(q)

\* C40: after any calls of enqueue, updatePriority, dequeue and clear the
\* stored elements are in non-increasing priority order; dequeue and peek
\* return an element whose priority is the largest stored; updatePriority
\* for an element that is not stored returns false and changes nothing.
C40_PriorityOrderKept ==
    /\ \A i \in 1..(Len(priorityElements) - 1) :
          priorityElements[i].priority >= priorityElements[i + 1].priority
    /\ priorityElements # << >>
          => /\ ~PriorityQueue_dequeue(priorityElements).thrown
             /\ holdsAtMaxPriority(priorityElements, PriorityQueue_dequeue(priorityElements).ret)
             /\ ~PriorityQueue_peek(priorityElements).thrown
             /\ holdsAtMaxPriority(priorityElements, PriorityQueue_peek(priorityElements).ret)
    /\ (lastPriorityCall.op \in {"dequeue", "peek"} /\ ~lastPriorityCall.thrown)
          => holdsAtMaxPriority(lastPriorityCall.before, lastPriorityCall.ret)
    /\ \A element \in QueueValues, newPriority \in PriorityValues :
          (\A i \in 1..Len(priorityElements) : priorityElements[i].element # element)
             => PriorityQueue_updatePriority(priorityElements, element, newPriority)
                   = {[ret |-> FALSE, elements |-> priorityElements]}
    /\ (lastPriorityCall.op = "updatePriority" /\ ~lastPriorityCall.ret)
          => priorityElements = lastPriorityCall.before

\* a dequeue from a full queue that held two priorities, which left only
\* one of the values stored, so that updatePriority for the other finds nothing
C40_Witness ==
    /\ lastPriorityCall.op = "dequeue"
    /\ ~lastPriorityCall.thrown
    /\ Len(lastPriorityCall.before) = MaxStored
    /\ lastPriorityCall.before[1].priority > lastPriorityCall.before[MaxStored].priority
    /\ priorityElements # << >>
    /\ \E element \in QueueValues :
          \A i \in 1..Len(priorityElements) : priorityElements[i].element # element

====
